---- MODULE Spec2Model ----
(***************************************************************************)
(* A model of src/app.js: the Score Matrix (people), the working           *)
(* permutation of the correlation matrix (matrixOrder), the memoized       *)
(* cluster assignment, and the pure statistics they are computed with.     *)
(*                                                                         *)
(* Conventions.                                                            *)
(*  - JavaScript arrays are sequences; person indices and cluster ids keep *)
(*    the 0-based values of the code, so people[i] of the code is          *)
(*    people[i + 1] here.                                                  *)
(*  - A value that may be null is held boxed: null is <<>> and a present   *)
(*    value v is <<v>>.                                                    *)
(*  - A string is the sequence of its characters.                          *)
(*  - A double produced by a division or a square root in the clustering   *)
(*    code is a fixed-point number with SCALE units per 1.0.               *)
(*  - A Pearson coefficient is kept exactly, as num / sqrt(den2).          *)
(***************************************************************************)
EXTENDS Integers, Sequences, FiniteSets, TLC

\* ------------------------------------------------------------------ bounds
MaxRows == 4
SCALE == 100
MaxVectors == 3
MaxDim == 2
MaxCoord == 2
MaxK == 3
MaxLen == 3
MaxScore == 1
MaxCells == 2
MaxCsvRows == 2
MaxCsvFields == 2

\* --------------------------------------------------------------- constants
NAME_COL_INDEX == 1
SCORE_START_COL_INDEX == 5
SCORE_END_COL_INDEX == 10
MAX_ITERS == 25
MAX_EXPONENT == 8

null == <<>>
Box(v) == <<v>>
Val(b) == b[1]

\* ----------------------------------------------------------------- helpers
Abs(x) == IF x < 0 THEN -x ELSE x
Sign(x) == IF x < 0 THEN -1 ELSE IF x > 0 THEN 1 ELSE 0
Min(a, b) == IF a < b THEN a ELSE b
Max(a, b) == IF a > b THEN a ELSE b

RECURSIVE Gcd(_, _)
Gcd(a, b) == IF b = 0 THEN a ELSE Gcd(b, a % b)

\* a / b rounded to the nearest unit (b > 0)
RDiv(a, b) == (2 * a + b) \div (2 * b)

\* floor of the square root, by bisection on [lo, hi)
RECURSIVE SqrtIn(_, _, _)
SqrtIn(x, lo, hi) ==
    IF hi - lo <= 1 THEN lo
    ELSE LET mid == (lo + hi) \div 2
         IN  IF mid * mid <= x THEN SqrtIn(x, mid, hi) ELSE SqrtIn(x, lo, mid)
Sqrt(x) == SqrtIn(x, 0, Min(x, 46340) + 1)

RECURSIVE SumSeq(_)
SumSeq(s) == IF s = <<>> THEN 0 ELSE Head(s) + SumSeq(Tail(s))

\* ------------------------------------------------------------------ doubles
\* The magnitude of a double is held exactly, as the bits of its binary
\* expansion: INT_BITS bits before the point and FRAC_BITS after it, most
\* significant first. Every operation rounds its exact result to the 53
\* significant bits of a double, ties to even.
INT_BITS == 4
FRAC_BITS == 60
MANTISSA_BITS == 53

IntBitsOf(n) == [i \in 1..INT_BITS |-> (n \div (2 ^ (INT_BITS - i))) % 2]
ZeroFrac == [i \in 1..FRAC_BITS |-> 0]

\* bits[pos] has a one added to it, with the carry into the bits before it
IncAt(bits, pos) ==
    LET j == CHOOSE i \in 1..pos : bits[i] = 0 /\ \A h \in (i + 1)..pos : bits[h] = 1
    IN  [i \in 1..Len(bits) |-> IF i < j THEN bits[i] ELSE IF i = j THEN 1 ELSE 0]

\* round to nearest, ties to even; sticky tells that the exact value has
\* further non-zero bits below the ones given
RoundBits(bits, sticky) ==
    IF \A i \in 1..Len(bits) : bits[i] = 0 THEN bits
    ELSE LET lead == CHOOSE i \in 1..Len(bits) :
                        bits[i] = 1 /\ \A h \in 1..(i - 1) : bits[h] = 0
             last == lead + MANTISSA_BITS - 1
         IN  IF last >= Len(bits) THEN bits
             ELSE LET guard == bits[last + 1]
                      rest == sticky \/ \E i \in (last + 2)..Len(bits) : bits[i] = 1
                      kept == [i \in 1..Len(bits) |-> IF i <= last THEN bits[i] ELSE 0]
                  IN  IF guard = 1 /\ (rest \/ bits[last] = 1)
                      THEN IncAt(kept, last) \o <<>>
                      ELSE kept \o <<>>
\* the exact bits are computed once, then rounded
Round53(exact, sticky) == CHOOSE r \in {RoundBits(bits, sticky) : bits \in {exact}} : TRUE

\* n fraction bits of rem / c by long division, and what is left over
RECURSIVE DivFrom(_, _, _, _)
DivFrom(rem, c, n, bits) ==
    IF n = 0 THEN [bits |-> bits, rem |-> rem]
    ELSE LET b == IF 2 * rem >= c THEN 1 ELSE 0
         IN  DivFrom(2 * rem - b * c, c, n - 1, Append(bits, b))

DoubleOfInt(v) == [neg |-> v < 0, mag |-> IntBitsOf(Abs(v)) \o ZeroFrac]

\* a / c for an integer a and a positive integer c
DoubleDiv(a, c) ==
    CHOOSE d \in {[neg |-> a < 0,
                   mag |-> Round53(IntBitsOf(Abs(a) \div c) \o q.bits, q.rem # 0)] :
                     q \in {DivFrom(Abs(a) % c, c, FRAC_BITS, <<>>)}} : TRUE

BitsLess(a, b) ==
    \E i \in 1..Len(a) : a[i] < b[i] /\ \A h \in 1..(i - 1) : a[h] = b[h]
\* a + b: a carry enters bit i when a later pair of ones reaches it through
\* pairs that hold a single one
AddBits(a, b) ==
    LET carry(i) == \E j \in (i + 1)..Len(a) :
                       /\ a[j] = 1 /\ b[j] = 1
                       /\ \A h \in (i + 1)..(j - 1) : a[h] + b[h] = 1
    IN  [i \in 1..Len(a) |-> (a[i] + b[i] + (IF carry(i) THEN 1 ELSE 0)) % 2] \o <<>>
\* a - b for a >= b: bit i lends when the bits after it hold less in a
SubBits(a, b) ==
    LET borrow(i) == \E j \in (i + 1)..Len(a) :
                        /\ a[j] < b[j]
                        /\ \A h \in (i + 1)..(j - 1) : a[h] = b[h]
    IN  [i \in 1..Len(a) |-> (a[i] - b[i] - (IF borrow(i) THEN 1 ELSE 0) + 2) % 2] \o <<>>

DoubleSubOf(x, y) ==
    IF x.neg # y.neg
    THEN [neg |-> x.neg, mag |-> Round53(AddBits(x.mag, y.mag), FALSE)]
    ELSE IF BitsLess(x.mag, y.mag)
         THEN [neg |-> ~x.neg, mag |-> Round53(SubBits(y.mag, x.mag), FALSE)]
         ELSE [neg |-> x.neg, mag |-> Round53(SubBits(x.mag, y.mag), FALSE)]
\* x - y
DoubleSub(x, y) == CHOOSE d \in {DoubleSubOf(u, v) : u \in {x}, v \in {y}} : TRUE
DoubleAbs(x) == [neg |-> FALSE, mag |-> x.mag]
\* x > y for two doubles that are not negative
DoubleGreater(x, y) == \E u \in {x}, v \in {y} : BitsLess(v.mag, u.mag)

DoubleIsZero(x) == \A i \in 1..Len(x.mag) : x.mag[i] = 0
DoubleSign(x) == IF DoubleIsZero(x) THEN 0 ELSE IF x.neg THEN -1 ELSE 1
\* x === y: the two zeros are equal
DoubleEquals(x, y) == x.mag = y.mag /\ (x.neg = y.neg \/ DoubleIsZero(x))
\* x + y
DoubleAdd(x, y) == DoubleSub(x, [neg |-> ~y.neg, mag |-> y.mag])

\* the bits of mag / c from bit i on by long division, and what is left over
RECURSIVE DivBitsFrom(_, _, _, _, _)
DivBitsFrom(mag, c, i, rem, bits) ==
    IF i > Len(mag) THEN [bits |-> bits, rem |-> rem]
    ELSE LET r == 2 * rem + mag[i]
             b == IF r >= c THEN 1 ELSE 0
         IN  DivBitsFrom(mag, c, i + 1, r - b * c, Append(bits, b))
\* x / c for a positive integer c
DoubleDivBy(x, c) ==
    CHOOSE d \in {[neg |-> u.neg, mag |-> Round53(q.bits, q.rem # 0)] :
                     u \in {x}, q \in {DivBitsFrom(x.mag, c, 1, 0, <<>>)}} : TRUE

\* ----------------------------------------------------------------- strings
\* the white space String.prototype.trim removes, as far as the inputs hold it
WS == {" ", "\t", "\n", "\r"}
DigitChars == <<"0", "1", "2", "3", "4", "5", "6", "7", "8", "9">>
IsDigit(c) == \E d \in 1..10 : DigitChars[d] = c
DigitVal(c) == (CHOOSE d \in 1..10 : DigitChars[d] = c) - 1

RECURSIVE TrimStart(_)
TrimStart(s) == IF s # <<>> /\ Head(s) \in WS THEN TrimStart(Tail(s)) ELSE s
RECURSIVE TrimEnd(_)
TrimEnd(s) ==
    IF s # <<>> /\ s[Len(s)] \in WS THEN TrimEnd(SubSeq(s, 1, Len(s) - 1)) ELSE s
Trim(s) == TrimEnd(TrimStart(s))

\* String.replace(/^\+/, ""): drops one leading plus sign
StripPlus(s) == IF s # <<>> /\ Head(s) = "+" THEN Tail(s) ELSE s

RECURSIVE DigitsValue(_, _)
DigitsValue(s, acc) ==
    IF s = <<>> THEN acc ELSE DigitsValue(Tail(s), 10 * acc + DigitVal(Head(s)))
AllDigits(s) == s # <<>> /\ \A i \in 1..Len(s) : IsDigit(s[i])

\* Number(cleaned) followed by Number.isFinite(num) ? num : null, for the
\* signed decimal integers; every other text of the alphabet is NaN.
ToNumber(s) ==
    IF AllDigits(s) THEN Box(DigitsValue(s, 0))
    ELSE IF s # <<>> /\ Head(s) \in {"+", "-"} /\ AllDigits(Tail(s))
         THEN Box((IF Head(s) = "-" THEN -1 ELSE 1) * DigitsValue(Tail(s), 0))
         ELSE null

\* Number(cleaned) as a double, for the texts made of an optional sign,
\* digits and an optional point with one digit after it: the double nearest
\* to the decimal value; the other texts of the alphabet are NaN (null)
DecimalParts(s) ==
    LET dot == IF \E i \in 1..Len(s) : s[i] = "." THEN CHOOSE i \in 1..Len(s) : s[i] = "." ELSE 0
    IN  IF dot = 0 THEN [whole |-> s, frac |-> <<"0">>]
        ELSE [whole |-> SubSeq(s, 1, dot - 1), frac |-> SubSeq(s, dot + 1, Len(s))]
\* the doubles nearest to n / 10 for the n below 2^INT_BITS * 10, computed once
TenthDoubles == [n \in 1..(2 ^ INT_BITS * 10) |-> DoubleDiv(n - 1, 10)] \o <<>>
ToDouble(s) ==
    LET neg == s # <<>> /\ Head(s) = "-"
        body == IF s # <<>> /\ Head(s) \in {"+", "-"} THEN Tail(s) ELSE s
        parts == DecimalParts(body)
        tenths == 10 * DigitsValue(parts.whole, 0) + DigitsValue(parts.frac, 0)
    IN  IF AllDigits(parts.whole) /\ Len(parts.frac) = 1 /\ AllDigits(parts.frac)
        THEN Box([neg |-> neg, mag |-> TenthDoubles[tenths + 1].mag])
        ELSE null

RECURSIVE NumToString(_)
NumToString(n) ==
    IF n < 10 THEN <<DigitChars[n + 1]>>
    ELSE Append(NumToString(n \div 10), DigitChars[(n % 10) + 1])

\* ------------------------------------------------------------------ inputs
E == <<>>
MkRow(name, cells) == <<E, name, E, E, E>> \o cells
RowA == MkRow(<<"A", "n", "n">>, <<<<"3">>, <<"-", "2">>, E, <<"1">>, <<"+", "2">>, <<"x">>>>)
RowB == MkRow(<<" ", "B", "o">>, <<<<" ", "3">>, <<"-", "1">>, <<"2">>, <<"0">>, <<"-", "2">>, <<" ">>>>)
RowC == MkRow(<<"C", "y">>, <<E, E, <<"0">>, <<"0">>>>)
RowD == MkRow(<<"D">>, <<<<"-", "2">>, <<"3">>, <<"1">>, E, <<"-", "1">>, <<"0">>>>)
RowA2 == MkRow(<<"A", "n", "n">>, <<<<"1">>, <<"1">>, E, <<"1">>, E, <<"+", "1">>>>)
RowBlank == MkRow(<<" ">>, <<<<"1">>, <<"2">>, <<"3">>, <<"1">>, <<"2">>, <<"3">>>>)
RowShort == <<<<"t">>>>
HeaderRowText == MkRow(<<"N">>, <<<<"a">>, <<"b">>, <<"c">>, <<"d">>, <<"e">>, <<"f">>>>)

\* the data rows of the sample sheet; a parsed sheet is the header and up to
\* MaxRows consecutive rows of it, and an empty text parses to no row at all
SheetRows == <<RowC, RowA, RowB, RowD, RowBlank, RowA2, RowShort, RowA>>
Window(from, n) == SubSeq(SheetRows, from, Min(from + n - 1, Len(SheetRows)))
Sheets == {<<>>} \cup
          {<<HeaderRowText>> \o Window(from, n) :
              from \in 1..Len(SheetRows), n \in 0..MaxRows}

\* a second sample sheet: four people who all rated the first two locations
RowP == MkRow(<<"P">>, <<<<"0">>, <<"1">>>>)
RowQ == MkRow(<<"Q">>, <<<<"1">>, <<"1">>>>)
RowR == MkRow(<<"R">>, <<<<"1">>, <<"0">>>>)
RowS == MkRow(<<"S">>, <<<<"0">>, <<"0">>>>)
RowT == MkRow(<<"T">>, <<<<"-", "1">>, <<"2">>>>)
BallotRows == <<RowP, RowQ, RowR, RowS, RowT>>
BallotSheets ==
    {<<HeaderRowText>> \o SubSeq(BallotRows, from, Min(from + n - 1, Len(BallotRows))) :
        from \in 1..Len(BallotRows), n \in 1..MaxRows}

VARIABLES people, matrixOrder, cachedClusterAssignments, cachedClusterK, call,
          currentExponent, customRankingInitialized,
          vectors, kArg, k, centroids, assignments, iter, changed, rounds, firstRun, pc

appVars == <<people, matrixOrder, cachedClusterAssignments, cachedClusterK, call>>
rankVars == <<currentExponent, customRankingInitialized>>
kmVars == <<vectors, kArg, k, centroids, assignments, iter, changed, rounds, firstRun, pc>>
vars == <<people, matrixOrder, cachedClusterAssignments, cachedClusterK, call,
          currentExponent, customRankingInitialized,
          vectors, kArg, k, centroids, assignments, iter, changed, rounds, firstRun, pc>>

\* --------------------------------------------------------------- loadSheet
Cell(row, c) == IF c + 1 <= Len(row) THEN Box(row[c + 1]) ELSE null

ParseScore(row, c) ==
    LET val == Cell(row, c)
    IN  IF val = null \/ Trim(Val(val)) = <<>> THEN null
        ELSE ToNumber(StripPlus(Trim(Val(val))))

RowScores(row) ==
    [i \in 1..(SCORE_END_COL_INDEX - SCORE_START_COL_INDEX + 1) |->
        ParseScore(row, SCORE_START_COL_INDEX + i - 1)]

RowName(row) == Trim(row[NAME_COL_INDEX + 1])

RECURSIVE BuildPeople(_)
BuildPeople(dataRows) ==
    IF dataRows = <<>> THEN <<>>
    ELSE LET row == Head(dataRows)
             rest == BuildPeople(Tail(dataRows))
         IN  IF Len(row) <= NAME_COL_INDEX THEN rest
             ELSE IF RowName(row) = <<>> THEN rest
             ELSE <<[name |-> RowName(row), scores |-> RowScores(row)]>> \o rest

\* the people each parsed sheet loads
PeopleOf == [rows \in Sheets \cup BallotSheets |-> BuildPeople(IF rows = <<>> THEN <<>> ELSE Tail(rows))]

NaturalOrder(n) == [i \in 1..n |-> i - 1]
Person(idx) == people[idx + 1]
ValidIdx(idx) == idx >= 0 /\ idx < Len(people)

\* -------------------------------------------------------------- core stats
RECURSIVE OverlapFrom_OneBased(_, _, _)
OverlapFrom_OneBased(personA, personB, i) ==
    IF i >= Len(personA.scores) THEN <<>>
    ELSE LET a == personA.scores[i + 1]
             b == personB.scores[i + 1]
         IN  (IF a # null /\ b # null
              THEN <<[index |-> i + 1, a |-> Val(a), b |-> Val(b)]>>
              ELSE <<>>) \o OverlapFrom_OneBased(personA, personB, i + 1)

\* { index, a, b } for every location both people scored, in index order
RECURSIVE OverlapFrom(_, _, _)
OverlapFrom(personA, personB, i) ==
    IF i >= Len(personA.scores) THEN <<>>
    ELSE LET a == personA.scores[i + 1]
             b == personB.scores[i + 1]
         IN  (IF a # null /\ b # null
              THEN <<[index |-> i, a |-> Val(a), b |-> Val(b)]>>
              ELSE <<>>) \o OverlapFrom(personA, personB, i + 1)

buildOverlap(personA, personB) ==
    LET overlaps == OverlapFrom(personA, personB, 0)
    IN  [xs |-> [i \in 1..Len(overlaps) |-> overlaps[i].a],
         ys |-> [i \in 1..Len(overlaps) |-> overlaps[i].b],
         overlaps |-> overlaps]

\* A number r is kept as num / sqrt(den2); NaN has nan = TRUE.
NaN == [nan |-> TRUE, num |-> 0, den2 |-> 1]
Num(num, den2) == [nan |-> FALSE, num |-> num, den2 |-> den2]
One == Num(1, 1)
IsFinite(r) == ~r.nan

pearsonCorrelation_OneSided(xs, ys) ==
    LET n == Len(xs)
        sumX == SumSeq(xs)
        sumY == SumSeq(ys)
        sumXY == SumSeq([i \in 1..n |-> xs[i] * ys[i]])
        sumX2 == SumSeq([i \in 1..n |-> xs[i] * xs[i]])
        num == n * sumXY - sumX * sumY
        den2 == (n * sumX2 - sumX * sumX) * (n * sumX2 - sumX * sumX)
    IN  IF n < 2 THEN NaN
        ELSE IF den2 = 0 THEN NaN
        ELSE Num(num, den2)

pearsonCorrelation_Unscaled(xs, ys) ==
    LET n == Len(xs)
        sumX == SumSeq(xs)
        sumY == SumSeq(ys)
        sumXY == SumSeq([i \in 1..n |-> xs[i] * ys[i]])
        sumX2 == SumSeq([i \in 1..n |-> xs[i] * xs[i]])
        sumY2 == SumSeq([i \in 1..n |-> ys[i] * ys[i]])
        num == (n - 1) * sumXY - sumX * sumY
        den2 == (n * sumX2 - sumX * sumX) * (n * sumY2 - sumY * sumY)
    IN  IF n < 2 THEN NaN
        ELSE IF den2 = 0 THEN NaN
        ELSE Num(num, den2)

pearsonCorrelation_NoZeroCheck(xs, ys) ==
    LET n == Len(xs)
        sumX == SumSeq(xs)
        sumY == SumSeq(ys)
        sumXY == SumSeq([i \in 1..n |-> xs[i] * ys[i]])
        sumX2 == SumSeq([i \in 1..n |-> xs[i] * xs[i]])
        sumY2 == SumSeq([i \in 1..n |-> ys[i] * ys[i]])
        num == n * sumXY - sumX * sumY
        den2 == (n * sumX2 - sumX * sumX) * (n * sumY2 - sumY * sumY)
    IN  IF n < 2 THEN NaN
        ELSE Num(num, den2)

pearsonCorrelation(xs, ys) ==
    LET n == Len(xs)
        sumX == SumSeq(xs)
        sumY == SumSeq(ys)
        sumXY == SumSeq([i \in 1..n |-> xs[i] * ys[i]])
        sumX2 == SumSeq([i \in 1..n |-> xs[i] * xs[i]])
        sumY2 == SumSeq([i \in 1..n |-> ys[i] * ys[i]])
        num == n * sumXY - sumX * sumY
        den2 == (n * sumX2 - sumX * sumX) * (n * sumY2 - sumY * sumY)
    IN  IF n < 2 THEN NaN
        ELSE IF den2 = 0 THEN NaN
        ELSE Num(num, den2)

\* The sign of ra - rb for two finite numbers: the squares num^2 / den2 are
\* compared in lowest terms, under the signs of the numerators.
Sq(r) ==
    LET g == Gcd(r.num * r.num, r.den2)
    IN  [p |-> (r.num * r.num) \div g, q |-> r.den2 \div g]
CmpSq(ra, rb) == Sign(Sq(ra).p * Sq(rb).q - Sq(rb).p * Sq(ra).q)
NumCmp(ra, rb) ==
    LET sa == Sign(ra.num)
        sb == Sign(rb.num)
    IN  IF sa # sb THEN Sign(sa - sb)
        ELSE IF sa >= 0 THEN CmpSq(ra, rb)
        ELSE CmpSq(rb, ra)

\* ---------------------------------------------------------- matrix builder
CorrCell_NoFiniteCheck(idxI, idxJ) ==
    IF idxI = idxJ
    THEN [r |-> Box(One), overlap |-> Len(Person(idxI).scores)]
    ELSE LET o == buildOverlap(Person(idxI), Person(idxJ))
         IN  IF Len(o.xs) < 2 THEN [r |-> null, overlap |-> Len(o.xs)]
             ELSE [r |-> Box(pearsonCorrelation(o.xs, o.ys)), overlap |-> Len(o.xs)]

CorrCell_SelfOverlap(idxI, idxJ) ==
    LET o == buildOverlap(Person(idxI), Person(idxJ))
    IN  IF Len(o.xs) < 2 THEN [r |-> null, overlap |-> Len(o.xs)]
        ELSE LET r == pearsonCorrelation(o.xs, o.ys)
             IN  [r |-> IF IsFinite(r) THEN Box(r) ELSE null, overlap |-> Len(o.xs)]

CorrCell(idxI, idxJ) ==
    IF idxI = idxJ
    THEN [r |-> Box(One), overlap |-> Len(Person(idxI).scores)]
    ELSE LET o == buildOverlap(Person(idxI), Person(idxJ))
         IN  IF Len(o.xs) < 2 THEN [r |-> null, overlap |-> Len(o.xs)]
             ELSE LET r == pearsonCorrelation(o.xs, o.ys)
                  IN  [r |-> IF IsFinite(r) THEN Box(r) ELSE null,
                       overlap |-> Len(o.xs)]

computeCorrelationMatrix(order) ==
    [i \in 1..Len(order) |-> [j \in 1..Len(order) |-> CorrCell(order[i], order[j])]]

\* the entry pushed on corrs for person j
CorrEntry(personIdx, j) ==
    IF j = personIdx THEN [idx |-> j, r |-> Box(One)]
    ELSE LET o == buildOverlap(Person(personIdx), Person(j))
         IN  IF Len(o.xs) < 2 THEN [idx |-> j, r |-> null]
             ELSE LET r == pearsonCorrelation(o.xs, o.ys)
                  IN  [idx |-> j, r |-> IF IsFinite(r) THEN Box(r) ELSE null]

CorrCompare_Ascending(a, b, personIdx) ==
    IF a.idx = personIdx /\ b.idx = personIdx THEN 0
    ELSE IF a.idx = personIdx THEN -1
    ELSE IF b.idx = personIdx THEN 1
    ELSE IF a.r = null /\ b.r = null THEN 0
    ELSE IF a.r = null THEN 1
    ELSE IF b.r = null THEN -1
    ELSE NumCmp(Val(a.r), Val(b.r))

\* the comparator handed to corrs.sort
CorrCompare(a, b, personIdx) ==
    IF a.idx = personIdx /\ b.idx = personIdx THEN 0
    ELSE IF a.idx = personIdx THEN -1
    ELSE IF b.idx = personIdx THEN 1
    ELSE IF a.r = null /\ b.r = null THEN 0
    ELSE IF a.r = null THEN 1
    ELSE IF b.r = null THEN -1
    ELSE NumCmp(Val(b.r), Val(a.r))

\* Array.prototype.sort is stable: x is placed after every element that does
\* not have to follow it.
RECURSIVE InsertSorted(_, _, _)
InsertSorted(sorted, x, personIdx) ==
    IF sorted = <<>> THEN <<x>>
    ELSE IF CorrCompare(sorted[Len(sorted)], x, personIdx) <= 0
         THEN Append(sorted, x)
         ELSE Append(InsertSorted(SubSeq(sorted, 1, Len(sorted) - 1), x, personIdx),
                     sorted[Len(sorted)])
RECURSIVE SortCorrs(_, _)
SortCorrs(corrs, personIdx) ==
    IF corrs = <<>> THEN <<>>
    ELSE InsertSorted(SortCorrs(SubSeq(corrs, 1, Len(corrs) - 1), personIdx),
                      corrs[Len(corrs)], personIdx)

IndexOf(seq, x) ==
    IF \E i \in 1..Len(seq) : seq[i] = x
    THEN (CHOOSE i \in 1..Len(seq) : seq[i] = x /\ \A j \in 1..(i - 1) : seq[j] # x) - 1
    ELSE -1

\* renderCorrelationMatrix draws the matrix unless there are no people, in
\* matrixOrder when it has one entry per person
Renders == people # <<>>
RenderOrder ==
    IF Len(matrixOrder) = Len(people) THEN matrixOrder ELSE NaturalOrder(Len(people))
\* -------------------------------------------------------------- clustering
\* one person's normalized vector; numLocations is people[0].scores.length
NormalizedVector(person, numLocations) ==
    LET vals == person.scores
        present == {i \in 1..Len(vals) : vals[i] # null}
        sum == SumSeq([i \in 1..Len(vals) |-> IF vals[i] # null THEN Val(vals[i]) ELSE 0])
        count == Cardinality(present)
        mean == IF count > 0 THEN RDiv(sum * SCALE, count) ELSE 0
        filled == [i \in 1..numLocations |->
                     IF vals[i] = null THEN mean ELSE Val(vals[i]) * SCALE]
        mu == RDiv(SumSeq(filled), numLocations)
        varAcc == SumSeq([i \in 1..numLocations |-> (filled[i] - mu) * (filled[i] - mu)])
        root == Sqrt(RDiv(varAcc, numLocations))
        std == IF root = 0 THEN SCALE ELSE root
    IN  [i \in 1..numLocations |-> RDiv((filled[i] - mu) * SCALE, std)]

buildNormalizedVectors ==
    IF people = <<>> THEN <<>>
    ELSE [p \in 1..Len(people) |-> NormalizedVector(people[p], Len(people[1].scores))]

distance2_Unsquared(a, b, dim) == SumSeq([i \in 1..dim |-> Abs(a[i] - b[i])])

distance2(a, b, dim) == SumSeq([i \in 1..dim |-> (a[i] - b[i]) * (a[i] - b[i])])

RECURSIVE NearestFrom_LastWins(_, _, _, _, _, _, _)
NearestFrom_LastWins(v, cents, kk, dim, from, bestC, bestD) ==
    IF from >= kk THEN bestC
    ELSE LET d == distance2(v, cents[from + 1], dim)
         IN  IF bestD = null \/ d <= Val(bestD)
             THEN NearestFrom_LastWins(v, cents, kk, dim, from + 1, from, Box(d))
             ELSE NearestFrom_LastWins(v, cents, kk, dim, from + 1, bestC, bestD)

\* the scan over c = from .. kk-1 that keeps the first strictly smaller
\* distance; bestD = null stands for Infinity
RECURSIVE NearestFrom(_, _, _, _, _, _, _)
NearestFrom(v, cents, kk, dim, from, bestC, bestD) ==
    IF from >= kk THEN bestC
    ELSE LET d == distance2(v, cents[from + 1], dim)
         IN  IF bestD = null \/ d < Val(bestD)
             THEN NearestFrom(v, cents, kk, dim, from + 1, from, Box(d))
             ELSE NearestFrom(v, cents, kk, dim, from + 1, bestC, bestD)
Nearest(v, cents, kk, dim) == NearestFrom(v, cents, kk, dim, 0, 0, null)

Members(assigns, c) == {i \in 1..Len(assigns) : assigns[i] = c}

Recentre_NoDivide(vs, assigns, cents, c, dim) ==
    LET m == Members(assigns, c)
    IN  IF Cardinality(m) = 0 THEN cents[c + 1]
        ELSE [d \in 1..dim |->
                SumSeq([i \in 1..Len(vs) |-> IF i \in m THEN vs[i][d] ELSE 0])]

\* the centroid of cluster c after the recompute step
Recentre(vs, assigns, cents, c, dim) ==
    LET m == Members(assigns, c)
    IN  IF Cardinality(m) = 0 THEN cents[c + 1]
        ELSE [d \in 1..dim |->
                RDiv(SumSeq([i \in 1..Len(vs) |-> IF i \in m THEN vs[i][d] ELSE 0]),
                     Cardinality(m))]

KMRound_NeverSettles(vs, kk, dim, cents, assigns) ==
    LET newAssigns == [i \in 1..Len(vs) |-> Nearest(vs[i], cents, kk, dim)]
    IN  [assignments |-> newAssigns,
         centroids |-> [c \in 1..kk |-> Recentre(vs, newAssigns, cents, c - 1, dim)],
         changed |-> TRUE]

\* one pass of the for-loop body: assign, then recompute the centroids
KMRound(vs, kk, dim, cents, assigns) ==
    LET newAssigns == [i \in 1..Len(vs) |-> Nearest(vs[i], cents, kk, dim)]
    IN  [assignments |-> newAssigns,
         centroids |-> [c \in 1..kk |-> Recentre(vs, newAssigns, cents, c - 1, dim)],
         changed |-> \E i \in 1..Len(vs) : assigns[i] # newAssigns[i]]

RECURSIVE KMLoop(_, _, _, _, _, _)
KMLoop(vs, kk, dim, cents, assigns, it) ==
    IF it >= MAX_ITERS THEN [assignments |-> assigns, centroids |-> cents]
    ELSE LET r == KMRound(vs, kk, dim, cents, assigns)
         IN  IF ~r.changed THEN [assignments |-> r.assignments, centroids |-> r.centroids]
             ELSE KMLoop(vs, kk, dim, r.centroids, r.assignments, it + 1)

ReturnsEmpty_Strict(n, kIn) == n = 0 \/ kIn < 0

\* the guard of the early return
ReturnsEmpty(n, kIn) == n = 0 \/ kIn <= 0

InputAfterRound_Aliased(vs, cents) ==
    [i \in 1..Len(vs) |-> IF i <= Len(cents) THEN cents[i] ELSE vs[i]]

\* the centroids are copies (slice) of the first vectors, so the writes of
\* the recompute step leave the caller's vectors as they were
InputAfterRound(vs, cents) == vs

InitCentroids(vs, kk) == [c \in 1..kk |-> vs[c]]
InitAssignments(n) == [i \in 1..n |-> 0]

kMeansCluster(vs, kIn) ==
    LET n == Len(vs)
    IN  IF ReturnsEmpty(n, kIn) THEN [assignments |-> <<>>, centroids |-> <<>>]
        ELSE LET kk == Min(kIn, n)
             IN  KMLoop(vs, kk, Len(vs[1]), InitCentroids(vs, kk), InitAssignments(n), 0)

ClusterK == 3

computeClustersOnce_NoMemo ==
    IF people = <<>>
    THEN [ret |-> null, assignments |-> cachedClusterAssignments,
          k |-> cachedClusterK, clustered |-> FALSE]
    ELSE LET a == kMeansCluster(buildNormalizedVectors, ClusterK).assignments
         IN  [ret |-> Box([assignments |-> a, k |-> ClusterK]),
              assignments |-> Box(a), k |-> Box(ClusterK), clustered |-> TRUE]

computeClustersOnce_CacheFirst ==
    IF cachedClusterAssignments # null
    THEN [ret |-> Box([assignments |-> Val(cachedClusterAssignments),
                       k |-> Val(cachedClusterK)]),
          assignments |-> cachedClusterAssignments,
          k |-> cachedClusterK, clustered |-> FALSE]
    ELSE IF people = <<>>
    THEN [ret |-> null, assignments |-> cachedClusterAssignments,
          k |-> cachedClusterK, clustered |-> FALSE]
    ELSE LET a == kMeansCluster(buildNormalizedVectors, ClusterK).assignments
         IN  [ret |-> Box([assignments |-> a, k |-> ClusterK]),
              assignments |-> Box(a), k |-> Box(ClusterK), clustered |-> TRUE]

\* what computeClustersOnce returns and leaves in the cache
computeClustersOnce ==
    IF people = <<>>
    THEN [ret |-> null, assignments |-> cachedClusterAssignments,
          k |-> cachedClusterK, clustered |-> FALSE]
    ELSE IF cachedClusterAssignments # null
    THEN [ret |-> Box([assignments |-> Val(cachedClusterAssignments),
                       k |-> Val(cachedClusterK)]),
          assignments |-> cachedClusterAssignments,
          k |-> cachedClusterK, clustered |-> FALSE]
    ELSE LET a == kMeansCluster(buildNormalizedVectors, ClusterK).assignments
         IN  [ret |-> Box([assignments |-> a, k |-> ClusterK]),
              assignments |-> Box(a), k |-> Box(ClusterK), clustered |-> TRUE]

\* the value getPersonClusterLabel returns from a clusterInfo
ClusterLabel(clusterInfo, personIdx) ==
    IF clusterInfo = null THEN null
    ELSE LET a == Val(clusterInfo).assignments
         IN  IF personIdx < 0 \/ personIdx >= Len(a) THEN null
             ELSE Box(NumToString(a[personIdx + 1] + 1))
\* ------------------------------------------------------------ the handlers
\* call records the handler that ran last: the clusterInfo it obtained, the
\* label it returned, whether it rendered the matrix and whether it ran
\* kMeansCluster
Called(op, info, label, rendered, clustered) ==
    [op |-> op, info |-> info, label |-> label,
     rendered |-> rendered, clustered |-> clustered]

kmIdle ==
    /\ vectors = <<>>
    /\ kArg = 0
    /\ k = 0
    /\ centroids = <<>>
    /\ assignments = <<>>
    /\ iter = 0
    /\ changed = FALSE
    /\ rounds = 0
    /\ firstRun = null
    /\ pc = "idle"

Init ==
    /\ people = <<>>
    /\ matrixOrder = <<>>
    /\ cachedClusterAssignments = null
    /\ cachedClusterK = null
    /\ call = Called("init", null, null, FALSE, FALSE)
    /\ currentExponent = 2
    /\ customRankingInitialized = FALSE
    /\ kmIdle

\* the .then callback of loadSheet on the parsed rows
LoadSheet(rows) ==
    LET loaded == PeopleOf[rows]
    IN  /\ people' = loaded
        /\ matrixOrder' = IF Len(loaded) = 0 THEN matrixOrder
                          ELSE NaturalOrder(Len(loaded))
        /\ call' = Called("loadSheet", null, null, FALSE, FALSE)
        /\ UNCHANGED <<cachedClusterAssignments, cachedClusterK>>
        /\ UNCHANGED <<rankVars, kmVars>>

\* the .catch callback of loadSheet when the fetch fails
LoadSheetError ==
    /\ call' = Called("loadSheetError", null, null, FALSE, FALSE)
    /\ UNCHANGED <<people, matrixOrder, cachedClusterAssignments, cachedClusterK>>
    /\ UNCHANGED <<rankVars, kmVars>>

ComputeClustersOnce ==
    LET r == computeClustersOnce
    IN  /\ cachedClusterAssignments' = r.assignments
        /\ cachedClusterK' = r.k
        /\ call' = Called("computeClustersOnce", r.ret, null, FALSE, r.clustered)
        /\ UNCHANGED <<people, matrixOrder>>
        /\ UNCHANGED <<rankVars, kmVars>>

GetPersonClusterLabel(personIdx) ==
    LET r == computeClustersOnce
    IN  /\ cachedClusterAssignments' = r.assignments
        /\ cachedClusterK' = r.k
        /\ call' = Called("getPersonClusterLabel", r.ret, ClusterLabel(r.ret, personIdx),
                          FALSE, r.clustered)
        /\ UNCHANGED <<people, matrixOrder>>
        /\ UNCHANGED <<rankVars, kmVars>>

\* people[personIdx] is undefined for an index outside people, and reading
\* its scores throws before matrixOrder is assigned
SortThrows(personIdx) == Len(people) > 0 /\ ~ValidIdx(personIdx)

SortedOrder_SkipSelf(personIdx) ==
    LET others == SelectSeq(NaturalOrder(Len(people)), LAMBDA j : j # personIdx)
        corrs == [j \in 1..Len(others) |-> CorrEntry(personIdx, others[j])]
        sorted == SortCorrs(corrs, personIdx)
    IN  [i \in 1..Len(sorted) |-> sorted[i].idx]

SortedOrder(personIdx) ==
    LET corrs == [j \in 1..Len(people) |-> CorrEntry(personIdx, j - 1)]
        sorted == SortCorrs(corrs, personIdx)
    IN  [i \in 1..Len(sorted) |-> sorted[i].idx]

SortMatrixByPerson(personIdx) ==
    /\ IF SortThrows(personIdx)
       THEN /\ UNCHANGED matrixOrder
            /\ call' = Called("sortMatrixByPerson", null, null, FALSE, FALSE)
       ELSE /\ matrixOrder' = SortedOrder(personIdx)
            /\ call' = Called("sortMatrixByPerson", null, null, Renders, FALSE)
    /\ UNCHANGED <<people, cachedClusterAssignments, cachedClusterK>>
    /\ UNCHANGED <<rankVars, kmVars>>

Swapped_NoTmp(order, i, j) ==
    [x \in 1..Len(order) |-> IF x = i THEN order[j] ELSE order[x]]

Swapped(order, i, j) ==
    [x \in 1..Len(order) |-> IF x = i THEN order[j] ELSE IF x = j THEN order[i] ELSE order[x]]

MovePersonInOrder(personIdx, direction) ==
    LET currPos == IndexOf(matrixOrder, personIdx)
        newPos == currPos + direction
    IN  /\ IF currPos = -1 \/ newPos < 0 \/ newPos >= Len(matrixOrder)
           THEN /\ UNCHANGED matrixOrder
                /\ call' = Called("movePersonInOrder", null, null, FALSE, FALSE)
           ELSE /\ matrixOrder' = Swapped(matrixOrder, currPos + 1, newPos + 1)
                /\ call' = Called("movePersonInOrder", null, null, Renders, FALSE)
        /\ UNCHANGED <<people, cachedClusterAssignments, cachedClusterK>>
        /\ UNCHANGED <<rankVars, kmVars>>

PersonArgs == 0..(MaxRows - 1)

Next ==
    \/ \E rows \in Sheets : LoadSheet(rows)
    \/ LoadSheetError
    \/ ComputeClustersOnce
    \/ \E personIdx \in PersonArgs \cup {-1} : GetPersonClusterLabel(personIdx)
    \/ \E personIdx \in PersonArgs : SortMatrixByPerson(personIdx)
    \/ \E personIdx \in PersonArgs, direction \in {-1, 1} :
          MovePersonInOrder(personIdx, direction)

Spec == Init /\ [][Next]_vars

\* ------------------------------------------- kMeansCluster, round by round
Coords == {c * SCALE : c \in 0..MaxCoord}
KMInputs == UNION {[1..n -> [1..MaxDim -> Coords]] : n \in 0..MaxVectors}

\* a caller hands kMeansCluster its vectors and its k
KMCall(vs, kIn) ==
    /\ pc = "idle"
    /\ vectors' = vs
    /\ kArg' = kIn
    /\ k' = kIn
    /\ pc' = "start"
    /\ UNCHANGED <<centroids, assignments, iter, changed, rounds, firstRun>>
    /\ UNCHANGED <<appVars, rankVars>>

\* the early return, or the initial centroids and assignments
KMStart ==
    /\ pc = "start"
    /\ IF ReturnsEmpty(Len(vectors), kArg)
       THEN /\ pc' = "returned"
            /\ UNCHANGED <<k, centroids, assignments>>
       ELSE /\ k' = Min(kArg, Len(vectors))
            /\ centroids' = InitCentroids(vectors, Min(kArg, Len(vectors)))
            /\ assignments' = InitAssignments(Len(vectors))
            /\ pc' = "loop"
    /\ UNCHANGED <<vectors, kArg, iter, changed, rounds, firstRun>>
    /\ UNCHANGED <<appVars, rankVars>>

\* one iteration of the for-loop, up to its break or its iter++
KMIterate ==
    /\ pc = "loop"
    /\ iter < MAX_ITERS
    /\ LET r == KMRound(vectors, k, Len(vectors[1]), centroids, assignments)
       IN  /\ assignments' = r.assignments
           /\ centroids' = r.centroids
           /\ changed' = r.changed
           /\ rounds' = rounds + 1
           /\ IF ~r.changed
              THEN /\ iter' = iter
                   /\ pc' = "returned"
              ELSE /\ iter' = iter + 1
                   /\ pc' = IF iter + 1 < MAX_ITERS THEN "loop" ELSE "returned"
           /\ vectors' = InputAfterRound(vectors, r.centroids)
    /\ UNCHANGED <<kArg, k, firstRun>>
    /\ UNCHANGED <<appVars, rankVars>>

\* the caller keeps the result and calls kMeansCluster(vectors, k) once more
KMAgain ==
    /\ pc = "returned"
    /\ firstRun = null
    /\ firstRun' = Box([assignments |-> assignments, centroids |-> centroids])
    /\ k' = kArg
    /\ centroids' = <<>>
    /\ assignments' = <<>>
    /\ iter' = 0
    /\ changed' = FALSE
    /\ rounds' = 0
    /\ pc' = "start"
    /\ UNCHANGED <<vectors, kArg>>
    /\ UNCHANGED <<appVars, rankVars>>

NextKM ==
    \/ pc = "idle" /\ \E vs \in KMInputs, kIn \in (-1)..MaxK : KMCall(vs, kIn)
    \/ KMStart
    \/ KMIterate
    \/ KMAgain

SpecKM == Init /\ [][NextKM]_vars

\* ------------------------------------------- the statistics on their own
\* a function call and what it returned
Returned(op, args, ret) == [op |-> op, args |-> args, ret |-> ret]

\* the score vectors buildOverlap can hand over: equally long, numbers only
ScoreValues == (-MaxScore)..MaxScore

PearsonCorrelation(xs, ys) ==
    /\ call' = Returned("pearsonCorrelation", <<xs, ys>>, pearsonCorrelation(xs, ys))
    /\ UNCHANGED <<people, matrixOrder, cachedClusterAssignments, cachedClusterK>>
    /\ UNCHANGED <<rankVars, kmVars>>

NextStats ==
    \/ call.op = "init" /\ \E n \in 0..MaxLen :
           \E xs, ys \in [1..n -> ScoreValues] : PearsonCorrelation(xs, ys)

SpecStats == Init /\ [][NextStats]_vars

\* ------------------------------------------ scores that are not whole numbers
\* the scores loadSheet reads from the score cells of one row, as doubles
ScoreOfCell(row, c) ==
    LET val == Cell(row, c)
    IN  IF val = null \/ Trim(Val(val)) = <<>> THEN null
        ELSE ToDouble(StripPlus(Trim(Val(val))))
DoubleScores(row) ==
    [i \in 1..(SCORE_END_COL_INDEX - SCORE_START_COL_INDEX + 1) |->
        ScoreOfCell(row, SCORE_START_COL_INDEX + i - 1)] \o <<>>

RECURSIVE DoubleSumFrom(_, _, _)
DoubleSumFrom(vals, i, acc) ==
    IF i > Len(vals) THEN acc
    ELSE DoubleSumFrom(vals, i + 1,
             IF vals[i] = null THEN acc ELSE DoubleAdd(acc, Val(vals[i])))
CountPresent(vals) == Cardinality({i \in 1..Len(vals) : vals[i] # null})

\* mu = sum2 / numLocations
Standardized(vals, mean, filled) ==
    DoubleDivBy(DoubleSumFrom(filled, 1, DoubleOfInt(0)), Len(vals))

\* the loop body of buildNormalizedVectors for one person: the imputed mean,
\* whether std || 1 took the 1, and the sign of each entry of norm. The
\* deviations d = filled[i] - mu are exact doubles; varAcc is zero exactly
\* when every d is zero (no d * d of scores in range underflows), and the
\* sign of (v - mu) / std is the sign of v - mu.
NormalizedDoubleOf(vals) ==
    LET count == CountPresent(vals)
        mean == CHOOSE m \in {IF count > 0
                               THEN DoubleDivBy(DoubleSumFrom(vals, 1, DoubleOfInt(0)), count)
                               ELSE DoubleOfInt(0)} : TRUE
        filled == [i \in 1..Len(vals) |-> IF vals[i] = null THEN Box(mean) ELSE vals[i]] \o <<>>
        mu == CHOOSE m \in {Standardized(vals, mean, filled)} : TRUE
        d == [i \in 1..Len(vals) |-> DoubleSub(Val(filled[i]), mu)] \o <<>>
    IN  [length |-> Len(vals),
         mean |-> mean,
         divisorIsOne |-> \A i \in 1..Len(vals) : DoubleIsZero(d[i]),
         signs |-> [i \in 1..Len(vals) |-> DoubleSign(d[i])] \o <<>>]

NormalizedDouble(scores) == CHOOSE r \in {NormalizedDoubleOf(vals) : vals \in {scores}} : TRUE

\* the agreement-strength counters of computeCorrelation's first pass
Bucketed_ElseThreePlus(cnt, absDiff) ==
    IF DoubleIsZero(absDiff) THEN [cnt EXCEPT !.exactSameCount = @ + 1]
    ELSE IF DoubleEquals(absDiff, DoubleOfInt(1)) THEN [cnt EXCEPT !.offBy1Count = @ + 1]
    ELSE IF DoubleEquals(absDiff, DoubleOfInt(2)) THEN [cnt EXCEPT !.offBy2Count = @ + 1]
    ELSE [cnt EXCEPT !.diff3PlusCount = @ + 1]

Bucketed(cnt, absDiff) ==
    IF DoubleIsZero(absDiff) THEN [cnt EXCEPT !.exactSameCount = @ + 1]
    ELSE IF DoubleEquals(absDiff, DoubleOfInt(1)) THEN [cnt EXCEPT !.offBy1Count = @ + 1]
    ELSE IF DoubleEquals(absDiff, DoubleOfInt(2)) THEN [cnt EXCEPT !.offBy2Count = @ + 1]
    ELSE IF ~BitsLess(absDiff.mag, DoubleOfInt(3).mag)
         THEN [cnt EXCEPT !.diff3PlusCount = @ + 1]
         ELSE cnt

RECURSIVE AgreementFrom(_, _, _, _)
AgreementFrom(scoresA, scoresB, i, cnt) ==
    IF i > Len(scoresA) THEN cnt
    ELSE IF scoresA[i] = null \/ scoresB[i] = null
         THEN AgreementFrom(scoresA, scoresB, i + 1, cnt)
         ELSE LET next == CHOOSE n \in
                     {Bucketed([c EXCEPT !.n = @ + 1], absDiff) :
                         c \in {cnt},
                         absDiff \in {DoubleAbs(DoubleSub(Val(scoresA[i]), Val(scoresB[i])))}} : TRUE
              IN  AgreementFrom(scoresA, scoresB, i + 1, next)
AgreementBuckets(scoresA, scoresB) ==
    CHOOSE cnt \in
        {AgreementFrom(a, b, 1,
            [n |-> 0, exactSameCount |-> 0, offBy1Count |-> 0, offBy2Count |-> 0,
             diff3PlusCount |-> 0]) : a \in {scoresA}, b \in {scoresB}} : TRUE

\* the score cells a row of the sheet may hold, and the rows made of them
CellTexts == {<<>>, <<"0", ".", "1">>, <<"1">>, <<"2">>, <<"-", "1">>}
ScoreRows(n) == [1..n -> CellTexts]

\* loadSheet reads a row, buildNormalizedVectors normalizes its person
NormalizeRow(cells) ==
    /\ call' = Returned("buildNormalizedVectors", cells,
                        NormalizedDouble(DoubleScores(MkRow(<<"A">>, cells))))
    /\ UNCHANGED <<people, matrixOrder, cachedClusterAssignments, cachedClusterK>>
    /\ UNCHANGED <<rankVars, kmVars>>

\* loadSheet reads two rows, computeCorrelation compares their people
CompareRows(cellsA, cellsB) ==
    /\ call' = Returned("computeCorrelation", <<cellsA, cellsB>>,
                        AgreementBuckets(DoubleScores(MkRow(<<"A">>, cellsA)),
                                         DoubleScores(MkRow(<<"B">>, cellsB))))
    /\ UNCHANGED <<people, matrixOrder, cachedClusterAssignments, cachedClusterK>>
    /\ UNCHANGED <<rankVars, kmVars>>

\* a row that ends before the last score column reads as one with blank
\* cells there, so two rows of n cells stand for every pair of rows
NextDoubles ==
    \/ call.op = "init" /\ \E n \in 0..MaxCells : \E cells \in ScoreRows(n) : NormalizeRow(cells)
    \/ call.op = "init" /\ \E n \in 0..MaxCells :
           \E cellsA, cellsB \in ScoreRows(n) : CompareRows(cellsA, cellsB)

SpecDoubles == Init /\ [][NextDoubles]_vars

\* ------------------------------------------------------------------ parseCSV
\* the scanner's variables between two characters
ScanState(rows, currentRow, currentField, inQuotes) ==
    [rows |-> rows, currentRow |-> currentRow,
     currentField |-> currentField, inQuotes |-> inQuotes]

\* text[i] of the source for a 0-based i; "" stands for undefined past the end
CharAt(text, i) == IF i < Len(text) THEN text[i + 1] ELSE ""

\* one pass of the loop body at index i: the next index and the next state
ScanStep_NoEscape(text, i, st) ==
    LET ch == CharAt(text, i)
    IN  IF ch = "\""
        THEN [i |-> i + 1,
              st |-> [st EXCEPT !.inQuotes = ~st.inQuotes]]
        ELSE IF ch = "," /\ ~st.inQuotes
        THEN [i |-> i + 1,
              st |-> [st EXCEPT !.currentRow = Append(st.currentRow, st.currentField),
                                !.currentField = <<>>]]
        ELSE IF ch \in {"\n", "\r"} /\ ~st.inQuotes
        THEN [i |-> IF ch = "\r" /\ CharAt(text, i + 1) = "\n" THEN i + 2 ELSE i + 1,
              st |-> [st EXCEPT !.rows = Append(st.rows, Append(st.currentRow, st.currentField)),
                                !.currentRow = <<>>,
                                !.currentField = <<>>]]
        ELSE [i |-> i + 1,
              st |-> [st EXCEPT !.currentField = Append(st.currentField, ch)]]

ScanStep(text, i, st) ==
    LET ch == CharAt(text, i)
    IN  IF ch = "\""
        THEN IF st.inQuotes /\ CharAt(text, i + 1) = "\""
             THEN [i |-> i + 2,
                   st |-> [st EXCEPT !.currentField = Append(st.currentField, "\"")]]
             ELSE [i |-> i + 1,
                   st |-> [st EXCEPT !.inQuotes = ~st.inQuotes]]
        ELSE IF ch = "," /\ ~st.inQuotes
        THEN [i |-> i + 1,
              st |-> [st EXCEPT !.currentRow = Append(st.currentRow, st.currentField),
                                !.currentField = <<>>]]
        ELSE IF ch \in {"\n", "\r"} /\ ~st.inQuotes
        THEN [i |-> IF ch = "\r" /\ CharAt(text, i + 1) = "\n" THEN i + 2 ELSE i + 1,
              st |-> [st EXCEPT !.rows = Append(st.rows, Append(st.currentRow, st.currentField)),
                                !.currentRow = <<>>,
                                !.currentField = <<>>]]
        ELSE [i |-> i + 1,
              st |-> [st EXCEPT !.currentField = Append(st.currentField, ch)]]

\* the for loop from index i on
RECURSIVE ScanFrom(_, _, _)
ScanFrom(text, i, st) ==
    IF i >= Len(text) THEN st
    ELSE CHOOSE r \in {ScanFrom(text, step.i, step.st) : step \in {ScanStep(text, i, st)}} : TRUE

\* the last field and row, pushed when anything of them was read
LastRowPushed(st) ==
    IF Len(st.currentField) > 0 \/ Len(st.currentRow) > 0
    THEN Append(st.rows, Append(st.currentRow, st.currentField))
    ELSE st.rows

\* row.some(cell => String(cell).trim().length > 0)
SomeCellFilled(row) == \E c \in 1..Len(row) : Len(Trim(row[c])) > 0

parseCSV(text) ==
    LET st == ScanFrom(text, 0, ScanState(<<>>, <<>>, <<>>, FALSE))
    IN  SelectSeq(LastRowPushed(st), SomeCellFilled)

\* a cell as a spreadsheet exports it: quoted, with every quote doubled, when
\* it holds a comma, a quote or a line break, bare otherwise
RECURSIVE QuotesDoubled(_)
QuotesDoubled(cell) ==
    IF cell = <<>> THEN <<>>
    ELSE (IF Head(cell) = "\"" THEN <<"\"", "\"">> ELSE <<Head(cell)>>) \o QuotesDoubled(Tail(cell))

NeedsQuotes(cell) == \E c \in 1..Len(cell) : cell[c] \in {",", "\"", "\n", "\r"}

CsvCell(cell) ==
    IF NeedsQuotes(cell) THEN <<"\"">> \o QuotesDoubled(cell) \o <<"\"">> ELSE cell

RECURSIVE CsvRow(_)
CsvRow(row) ==
    IF Len(row) = 1 THEN CsvCell(row[1])
    ELSE CsvCell(row[1]) \o <<",">> \o CsvRow(Tail(row))

\* the rows joined by lineBreak, with or without one after the last row
RECURSIVE CsvText(_, _, _)
CsvText(table, lineBreak, trailing) ==
    IF table = <<>> THEN <<>>
    ELSE IF Len(table) = 1 THEN CsvRow(table[1]) \o (IF trailing THEN lineBreak ELSE <<>>)
    ELSE CsvRow(table[1]) \o lineBreak \o CsvText(Tail(table), lineBreak, trailing)

\* the exported tables: up to MaxCsvRows rows of up to MaxCsvFields cells, a
\* cell being empty, a space, a letter, a comma, a quote or a CR LF pair
CsvCells == {<<>>, <<" ">>, <<"a">>, <<",">>, <<"\"">>, <<"\r", "\n">>}
CsvRows == UNION {[1..n -> CsvCells] : n \in 1..MaxCsvFields}
CsvTables == UNION {[1..n -> CsvRows] : n \in 0..MaxCsvRows}
LineBreaks == {<<"\n">>, <<"\r", "\n">>}

\* parseCSV on the text of an exported table
ParseCSV(table, lineBreak, trailing) ==
    /\ call' = Returned("parseCSV",
                        [table |-> table, lineBreak |-> lineBreak, trailing |-> trailing,
                         text |-> CsvText(table, lineBreak, trailing)],
                        parseCSV(CsvText(table, lineBreak, trailing)))
    /\ UNCHANGED <<people, matrixOrder, cachedClusterAssignments, cachedClusterK>>
    /\ UNCHANGED <<rankVars, kmVars>>

NextCSV ==
    call.op = "init" /\ \E table \in CsvTables, lineBreak \in LineBreaks, trailing \in BOOLEAN :
                           ParseCSV(table, lineBreak, trailing)

SpecCSV == Init /\ [][NextCSV]_vars

\* ---------------------------------------------------------- custom ranking
RECURSIVE Pow(_, _)
Pow(b, e) == IF e = 0 THEN 1 ELSE b * Pow(b, e - 1)

Contribution_Magnitude(v, exponent) == Sign(v) * Abs(v)

\* sign * mag of one present score
Contribution(v, exponent) == Sign(v) * Pow(Abs(v), exponent)

\* the contributions array of one location, in the order of people
RECURSIVE ContributionsFrom(_, _, _)
ContributionsFrom(p, locIdx, exponent) ==
    IF p > Len(people) THEN <<>>
    ELSE LET v == people[p].scores[locIdx + 1]
         IN  (IF v = null THEN <<>> ELSE <<Contribution(Val(v), exponent)>>)
             \o ContributionsFrom(p + 1, locIdx, exponent)

\* locStats before the sort: one entry per location with a contribution
RECURSIVE LocStatsFrom(_, _, _)
LocStatsFrom(locIdx, numLocations, exponent) ==
    IF locIdx >= numLocations THEN <<>>
    ELSE LET contributions == ContributionsFrom(1, locIdx, exponent)
         IN  (IF contributions = <<>> THEN <<>>
              ELSE <<[index |-> locIdx,
                      score |-> SumSeq(contributions),
                      count |-> Len(contributions)]>>)
             \o LocStatsFrom(locIdx + 1, numLocations, exponent)

ScoreCompare_Ascending(a, b) == a.score - b.score

\* the comparator of locStats.sort and of results.sort
ScoreCompare(a, b) == b.score - a.score

RECURSIVE InsertByScore(_, _)
InsertByScore(sorted, x) ==
    IF sorted = <<>> THEN <<x>>
    ELSE IF ScoreCompare(sorted[Len(sorted)], x) <= 0
         THEN Append(sorted, x)
         ELSE Append(InsertByScore(SubSeq(sorted, 1, Len(sorted) - 1), x),
                     sorted[Len(sorted)])
RECURSIVE SortByScore(_)
SortByScore(stats) ==
    IF stats = <<>> THEN <<>>
    ELSE InsertByScore(SortByScore(SubSeq(stats, 1, Len(stats) - 1)), stats[Len(stats)])

\* the rows updateCustomRankingResults writes for an exponent: nothing at
\* all without people, otherwise the sorted locStats (the dispersion column
\* and the bar widths only decorate a row and are left out)
updateCustomRankingResults(exponent) ==
    IF people = <<>> THEN null
    ELSE Box(SortByScore(LocStatsFrom(0, Len(people[1].scores), exponent)))

\* Number(e.target.value): blank text is 0, other text that is not a number
\* is NaN (null)
NumberOf(text) == IF Trim(text) = <<>> THEN Box(0) ELSE ToNumber(Trim(text))

Clamp(val) == Min(Max(val, 0), MAX_EXPONENT)

ExponentTexts ==
    {<<>>, <<" ">>, <<"x">>, <<"-", "1">>, <<"0">>, <<"1">>, <<"9">>, <<"1", "2">>}

\* the tab is opened: the controls are created once there are people
RenderCustomRanking ==
    /\ customRankingInitialized' = (customRankingInitialized \/ people # <<>>)
    /\ call' = Returned("renderCustomRanking", null,
                        updateCustomRankingResults(currentExponent))
    /\ UNCHANGED <<people, matrixOrder, cachedClusterAssignments, cachedClusterK,
                   currentExponent>>
    /\ UNCHANGED kmVars

\* the "input" listener of the slider
SliderInput(text) ==
    /\ customRankingInitialized
    /\ LET val == NumberOf(text)
       IN  IF val # null
           THEN /\ currentExponent' = Clamp(Val(val))
                /\ call' = Returned("sliderInput", text,
                                    updateCustomRankingResults(currentExponent'))
           ELSE /\ UNCHANGED currentExponent
                /\ call' = Returned("sliderInput", text, null)
    /\ UNCHANGED <<people, matrixOrder, cachedClusterAssignments, cachedClusterK,
                   customRankingInitialized>>
    /\ UNCHANGED kmVars

\* the "change" listener of the numeric input
InputChange(text) ==
    /\ customRankingInitialized
    /\ LET val == IF NumberOf(text) = null THEN currentExponent ELSE Val(NumberOf(text))
       IN  /\ currentExponent' = Clamp(val)
           /\ call' = Returned("inputChange", text,
                               updateCustomRankingResults(currentExponent'))
    /\ UNCHANGED <<people, matrixOrder, cachedClusterAssignments, cachedClusterK,
                   customRankingInitialized>>
    /\ UNCHANGED kmVars

NextRank ==
    \/ \E rows \in Sheets : LoadSheet(rows)
    \/ RenderCustomRanking
    \/ \E text \in ExponentTexts : SliderInput(text)
    \/ \E text \in ExponentTexts : InputChange(text)

SpecRank == Init /\ [][NextRank]_vars

\* ------------------------------------------------------ overall statistics
\* the entry of one location, or none when nobody rated it
LocSignedSquared(idx) ==
    LET vals == [p \in 1..Len(people) |-> people[p].scores[idx + 1]]
        rated == {p \in 1..Len(people) : vals[p] # null}
        count == Cardinality(rated)
        signedSquaredSum ==
            SumSeq([p \in 1..Len(people) |->
                      IF vals[p] # null THEN Val(vals[p]) * Abs(Val(vals[p])) ELSE 0])
        sum == SumSeq([p \in 1..Len(people) |-> IF vals[p] # null THEN Val(vals[p]) ELSE 0])
        sumSq == SumSeq([p \in 1..Len(people) |->
                           IF vals[p] # null THEN Val(vals[p]) * Val(vals[p]) ELSE 0])
        mean == RDiv(sum * SCALE, count)
        variance == RDiv(sumSq * SCALE * SCALE, count) - mean * mean
    IN  IF count > 0
        THEN <<[index |-> idx,
                signedSquaredSum |-> signedSquaredSum,
                count |-> count,
                consensus |-> IF count > 1 THEN Box(Sqrt(Max(variance, 0))) ELSE null]>>
        ELSE <<>>

RECURSIVE SignedSquaredFrom(_, _)
SignedSquaredFrom(idx, numLocations) ==
    IF idx >= numLocations THEN <<>>
    ELSE LocSignedSquared(idx) \o SignedSquaredFrom(idx + 1, numLocations)

SignedSquaredCompare_Ascending(a, b) == a.signedSquaredSum - b.signedSquaredSum

SignedSquaredCompare(a, b) == b.signedSquaredSum - a.signedSquaredSum

RECURSIVE InsertBySignedSquared(_, _)
InsertBySignedSquared(sorted, x) ==
    IF sorted = <<>> THEN <<x>>
    ELSE IF SignedSquaredCompare(sorted[Len(sorted)], x) <= 0
         THEN Append(sorted, x)
         ELSE Append(InsertBySignedSquared(SubSeq(sorted, 1, Len(sorted) - 1), x),
                     sorted[Len(sorted)])
RECURSIVE SortBySignedSquared(_)
SortBySignedSquared(stats) ==
    IF stats = <<>> THEN <<>>
    ELSE InsertBySignedSquared(SortBySignedSquared(SubSeq(stats, 1, Len(stats) - 1)),
                               stats[Len(stats)])

computeLocationSignedSquaredSums ==
    IF people = <<>> THEN null
    ELSE LET locStats == SortBySignedSquared(SignedSquaredFrom(0, Len(people[1].scores)))
         IN  IF locStats = <<>> THEN null
             ELSE Box([best |-> locStats[1],
                       worst |-> locStats[Len(locStats)],
                       ranking |-> locStats])

ComputeLocationSignedSquaredSums ==
    /\ call' = Returned("computeLocationSignedSquaredSums", null,
                        computeLocationSignedSquaredSums)
    /\ UNCHANGED <<people, matrixOrder, cachedClusterAssignments, cachedClusterK>>
    /\ UNCHANGED <<rankVars, kmVars>>

\* the location whose score of person differs most from the mean of the
\* other raters, scanning from idx on; best is the record held so far
RECURSIVE MostDifferentFrom(_, _, _)
MostDifferentFrom(personIdx, idx, best) ==
    IF idx >= Len(Person(personIdx).scores) THEN best
    ELSE LET v == Person(personIdx).scores[idx + 1]
             others == {j \in 1..Len(people) :
                          j # personIdx + 1 /\ people[j].scores[idx + 1] # null}
             sum == SumSeq([j \in 1..Len(people) |->
                              IF j \in others THEN Val(people[j].scores[idx + 1]) ELSE 0])
             count == Cardinality(others)
         IN  IF v = null \/ count = 0
             THEN MostDifferentFrom(personIdx, idx + 1, best)
             ELSE CHOOSE next \in
                    {MostDifferentFrom(personIdx, idx + 1,
                        IF best = null \/ DoubleGreater(diff, Val(best).diff)
                        THEN Box([index |-> idx,
                                  diff |-> diff,
                                  selfScore |-> Val(v),
                                  groupMean |-> groupMean,
                                  count |-> count])
                        ELSE best) :
                      groupMean \in {DoubleDiv(sum, count)},
                      diff \in {DoubleAbs(DoubleSub(DoubleOfInt(Val(v)),
                                                    DoubleDiv(sum, count)))}} : TRUE

computeMostDifferentLocation(personIdx) ==
    IF ~ValidIdx(personIdx) THEN null
    ELSE MostDifferentFrom(personIdx, 0, null)

ComputeMostDifferentLocation(personIdx) ==
    /\ call' = Returned("computeMostDifferentLocation", personIdx,
                        computeMostDifferentLocation(personIdx))
    /\ UNCHANGED <<people, matrixOrder, cachedClusterAssignments, cachedClusterK>>
    /\ UNCHANGED <<rankVars, kmVars>>

\* the entry of one location in computePolarizationExtremes; the standard
\* deviation is a fixed-point number
PolarEntry(idx) ==
    LET rated == {p \in 1..Len(people) : people[p].scores[idx + 1] # null}
        n == Cardinality(rated)
        val(p) == IF p \in rated THEN Val(people[p].scores[idx + 1]) ELSE 0
        mean == RDiv(SumSeq([p \in 1..Len(people) |-> val(p)]) * SCALE, n)
        variance == RDiv(SumSeq([p \in 1..Len(people) |->
                                   IF p \in rated
                                   THEN (val(p) * SCALE - mean) * (val(p) * SCALE - mean)
                                   ELSE 0]), n)
    IN  [index |-> idx, std |-> Sqrt(variance), n |-> n]

RECURSIVE PolarFrom(_, _, _, _)
PolarFrom(idx, numLocations, most, least) ==
    IF idx >= numLocations THEN [most |-> most, least |-> least]
    ELSE IF Cardinality({p \in 1..Len(people) : people[p].scores[idx + 1] # null}) < 2
    THEN PolarFrom(idx + 1, numLocations, most, least)
    ELSE LET entry == PolarEntry(idx)
         IN  PolarFrom(idx + 1, numLocations,
                IF most = null \/ entry.std > Val(most).std THEN Box(entry) ELSE most,
                IF least = null \/ entry.std < Val(least).std THEN Box(entry) ELSE least)

computePolarizationExtremes ==
    IF people = <<>> THEN [most |-> null, least |-> null]
    ELSE PolarFrom(0, Len(people[1].scores), null, null)

\* the pairs (i, j) with i < j in the order of the two loops, from (i, j) on
RECURSIVE PairsFrom(_, _)
PairsFrom(i, j) ==
    IF i >= Len(people) THEN <<>>
    ELSE IF j >= Len(people) THEN PairsFrom(i + 1, i + 2)
    ELSE <<(<<i, j>>)>> \o PairsFrom(i, j + 1)

RECURSIVE PairExtremesFrom(_, _, _, _)
PairExtremesFrom(pairs, at, bestPair, worstPair) ==
    IF at > Len(pairs) THEN [bestPair |-> bestPair, worstPair |-> worstPair]
    ELSE LET pA == Person(pairs[at][1])
             pB == Person(pairs[at][2])
             o == buildOverlap(pA, pB)
             r == pearsonCorrelation(o.xs, o.ys)
             entry == [a |-> pA.name, b |-> pB.name, r |-> r, overlap |-> Len(o.xs)]
         IN  IF Len(o.xs) < 2 \/ ~IsFinite(r)
             THEN PairExtremesFrom(pairs, at + 1, bestPair, worstPair)
             ELSE PairExtremesFrom(pairs, at + 1,
                    IF bestPair = null \/ NumCmp(r, Val(bestPair).r) > 0
                    THEN Box(entry) ELSE bestPair,
                    IF worstPair = null \/ NumCmp(r, Val(worstPair).r) < 0
                    THEN Box(entry) ELSE worstPair)

computeGlobalPairExtremes == PairExtremesFrom(PairsFrom(0, 1), 1, null, null)

\* -------------------------------------------------------- cluster extremes
MeanCompare(a, b) == b.mean - a.mean
RECURSIVE InsertByMean(_, _)
InsertByMean(sorted, x) ==
    IF sorted = <<>> THEN <<x>>
    ELSE IF MeanCompare(sorted[Len(sorted)], x) <= 0
         THEN Append(sorted, x)
         ELSE Append(InsertByMean(SubSeq(sorted, 1, Len(sorted) - 1), x),
                     sorted[Len(sorted)])
RECURSIVE SortByMean(_)
SortByMean(stats) ==
    IF stats = <<>> THEN <<>>
    ELSE InsertByMean(SortByMean(SubSeq(stats, 1, Len(stats) - 1)), stats[Len(stats)])

\* the indices i with assignments[i] = c, ascending
RECURSIVE MemberIdxsFrom(_, _, _)
MemberIdxsFrom(assigned, c, i) ==
    IF i >= Len(assigned) THEN <<>>
    ELSE (IF assigned[i + 1] = c THEN <<i>> ELSE <<>>) \o MemberIdxsFrom(assigned, c, i + 1)

\* the mean score of the members per location they rated
RECURSIVE ClusterLocStatsFrom(_, _, _)
ClusterLocStatsFrom(memberIdxs, loc, numLocations) ==
    IF loc >= numLocations THEN <<>>
    ELSE LET rated == {m \in 1..Len(memberIdxs) :
                         Person(memberIdxs[m]).scores[loc + 1] # null}
             sum == SumSeq([m \in 1..Len(memberIdxs) |->
                              IF m \in rated
                              THEN Val(Person(memberIdxs[m]).scores[loc + 1]) ELSE 0])
             count == Cardinality(rated)
         IN  (IF count > 0
              THEN <<[idx |-> loc, mean |-> RDiv(sum * SCALE, count), count |-> count]>>
              ELSE <<>>) \o ClusterLocStatsFrom(memberIdxs, loc + 1, numLocations)

ClusterSummary(assigned, c) ==
    LET memberIdxs == MemberIdxsFrom(assigned, c, 0)
        locStats == SortByMean(ClusterLocStatsFrom(memberIdxs, 0, Len(people[1].scores)))
        members == [m \in 1..Len(memberIdxs) |-> Person(memberIdxs[m]).name]
    IN  IF memberIdxs = <<>>
        THEN [cluster |-> c, members |-> <<>>, favorite |-> null, leastFavorite |-> null]
        ELSE IF locStats = <<>>
        THEN [cluster |-> c, members |-> members, favorite |-> null, leastFavorite |-> null]
        ELSE [cluster |-> c, members |-> members,
              favorite |-> Box(locStats[1]),
              leastFavorite |-> Box(locStats[Len(locStats)])]

\* an assignment that names an index people does not have makes the
\* function read the scores of undefined, which throws
computeClusterLocationExtremes(assigned, kIn) ==
    IF people = <<>> THEN [threw |-> FALSE, value |-> <<>>]
    ELSE IF kIn > 0 /\ Len(assigned) > Len(people) /\
            \E i \in (Len(people) + 1)..Len(assigned) : assigned[i] \in 0..(kIn - 1)
    THEN [threw |-> TRUE, value |-> <<>>]
    ELSE [threw |-> FALSE,
          value |-> [c \in 1..kIn |-> ClusterSummary(assigned, c - 1)]]

\* ------------------------------------------------------------ comparison
\* people.find(p => p.name === name): the first person of that name
FindByName(name) ==
    IF \E i \in 1..Len(people) : people[i].name = name
    THEN Box(CHOOSE i \in 1..Len(people) :
                people[i].name = name /\ \A h \in 1..(i - 1) : people[h].name # name)
    ELSE null

CompromiseBetter_LowerAverage(absDiff, avgScore, compromise) ==
    \/ absDiff < compromise.absDiff
    \/ absDiff = compromise.absDiff /\ avgScore < compromise.avg

\* the test that replaces the compromise held so far; the scores are whole
\* numbers, which the tolerance of 1e-9 neither merges nor separates
CompromiseBetter(absDiff, avgScore, compromise) ==
    \/ absDiff < compromise.absDiff
    \/ absDiff = compromise.absDiff /\ avgScore > compromise.avg

RECURSIVE CompromiseFrom(_, _, _)
CompromiseFrom(overlapDetails, i, compromise) ==
    IF i > Len(overlapDetails) THEN compromise
    ELSE LET meta == overlapDetails[i]
             absDiff == Abs(meta.a - meta.b)
             avgScore == RDiv((meta.a + meta.b) * SCALE, 2)
         IN  CompromiseFrom(overlapDetails, i + 1,
                IF compromise = null \/ CompromiseBetter(absDiff, avgScore, Val(compromise))
                THEN Box([index |-> meta.index, a |-> meta.a, b |-> meta.b,
                          absDiff |-> absDiff, avg |-> avgScore])
                ELSE compromise)

\* the early returns of computeCorrelation: an error status, the result box
\* still hidden, nothing computed
Failed(status) ==
    [status |-> status, error |-> TRUE, display |-> "none", r |-> null, compromise |-> null]

InsufficientOverlap_BelowOne(xs) == Len(xs) < 1
InsufficientOverlap(xs) == Len(xs) < 2

\* computeCorrelation for the two selected names: the status line it writes,
\* whether the result box is shown and, when it is, the correlation and the
\* compromise it reports
computeCorrelation(nameA, nameB) ==
    IF nameA = <<>> \/ nameB = <<>> THEN Failed("choose both")
    ELSE IF nameA = nameB THEN Failed("choose different")
    ELSE IF FindByName(nameA) = null \/ FindByName(nameB) = null THEN Failed("not found")
    ELSE LET o == buildOverlap(people[Val(FindByName(nameA))], people[Val(FindByName(nameB))])
         IN  IF InsufficientOverlap(o.xs) THEN Failed("not enough overlap")
             ELSE IF ~IsFinite(pearsonCorrelation(o.xs, o.ys))
             THEN Failed("no valid correlation")
             ELSE [status |-> "", error |-> FALSE, display |-> "block",
                   r |-> Box(pearsonCorrelation(o.xs, o.ys)),
                   compromise |-> CompromiseFrom(o.overlaps, 1, null)]

NameArgs == {<<>>, <<"Z">>} \cup {people[i].name : i \in 1..Len(people)}

ComputeCorrelation(nameA, nameB) ==
    /\ call' = Returned("computeCorrelation", <<nameA, nameB>>,
                        computeCorrelation(nameA, nameB))
    /\ UNCHANGED <<people, matrixOrder, cachedClusterAssignments, cachedClusterK>>
    /\ UNCHANGED <<rankVars, kmVars>>

ComputePolarizationExtremes ==
    /\ call' = Returned("computePolarizationExtremes", null, computePolarizationExtremes)
    /\ UNCHANGED <<people, matrixOrder, cachedClusterAssignments, cachedClusterK>>
    /\ UNCHANGED <<rankVars, kmVars>>

ComputeGlobalPairExtremes ==
    /\ call' = Returned("computeGlobalPairExtremes", null, computeGlobalPairExtremes)
    /\ UNCHANGED <<people, matrixOrder, cachedClusterAssignments, cachedClusterK>>
    /\ UNCHANGED <<rankVars, kmVars>>

BuildNormalizedVectors ==
    /\ call' = Returned("buildNormalizedVectors", null, buildNormalizedVectors)
    /\ UNCHANGED <<people, matrixOrder, cachedClusterAssignments, cachedClusterK>>
    /\ UNCHANGED <<rankVars, kmVars>>

\* the cluster summaries of the stored assignment, or of no assignment
ComputeClusterLocationExtremes ==
    /\ LET assigned == IF cachedClusterAssignments = null THEN <<>>
                       ELSE Val(cachedClusterAssignments)
           kIn == IF cachedClusterK = null THEN ClusterK ELSE Val(cachedClusterK)
       IN  call' = Returned("computeClusterLocationExtremes", <<assigned, kIn>>,
                            computeClusterLocationExtremes(assigned, kIn))
    /\ UNCHANGED <<people, matrixOrder, cachedClusterAssignments, cachedClusterK>>
    /\ UNCHANGED <<rankVars, kmVars>>

\* buildOverlap on two people of the matrix
BuildOverlap(idxA, idxB) ==
    /\ ValidIdx(idxA) /\ ValidIdx(idxB)
    /\ call' = Returned("buildOverlap", <<idxA, idxB>>, buildOverlap(Person(idxA), Person(idxB)))
    /\ UNCHANGED <<people, matrixOrder, cachedClusterAssignments, cachedClusterK>>
    /\ UNCHANGED <<rankVars, kmVars>>

\* renderClusters: nothing without people, a notice for a single person,
\* else the clusters of computeClustersOnce and their summaries
RenderClusters ==
    IF Len(people) < 2
    THEN /\ call' = Returned("renderClusters", null, null)
         /\ UNCHANGED <<people, matrixOrder, cachedClusterAssignments, cachedClusterK>>
         /\ UNCHANGED <<rankVars, kmVars>>
    ELSE \E clusterInfo \in {computeClustersOnce} :
             \E summaries \in {computeClusterLocationExtremes(
                                   Val(clusterInfo.ret).assignments, Val(clusterInfo.ret).k)} :
                 /\ cachedClusterAssignments' = clusterInfo.assignments
                 /\ cachedClusterK' = clusterInfo.k
                 /\ call' = Returned("renderClusters",
                                     <<Val(clusterInfo.ret).assignments, Val(clusterInfo.ret).k>>,
                                     summaries)
                 /\ UNCHANGED <<people, matrixOrder>>
                 /\ UNCHANGED <<rankVars, kmVars>>

\* the matrix of the ordering renderCorrelationMatrix draws, or of no one
MatrixOrders == {<<>>} \cup (IF Renders THEN {RenderOrder} ELSE {})
ComputeCorrelationMatrix(order) ==
    /\ call' = Returned("computeCorrelationMatrix", order, computeCorrelationMatrix(order))
    /\ UNCHANGED <<people, matrixOrder, cachedClusterAssignments, cachedClusterK>>
    /\ UNCHANGED <<rankVars, kmVars>>

NextInsights ==
    \/ \E rows \in Sheets \cup BallotSheets : LoadSheet(rows)
    \/ ComputeLocationSignedSquaredSums
    \/ \E personIdx \in PersonArgs \cup {-1} : ComputeMostDifferentLocation(personIdx)
    \/ \E nameA, nameB \in NameArgs : ComputeCorrelation(nameA, nameB)
    \/ ComputePolarizationExtremes
    \/ ComputeGlobalPairExtremes
    \/ BuildNormalizedVectors
    \/ ComputeClustersOnce
    \/ ComputeClusterLocationExtremes
    \/ RenderClusters
    \/ \E idxA, idxB \in PersonArgs : BuildOverlap(idxA, idxB)
    \/ \E order \in MatrixOrders : ComputeCorrelationMatrix(order)

SpecInsights == Init /\ [][NextInsights]_vars

\* ================================================================== claims
FreshAssignments == kMeansCluster(buildNormalizedVectors, ClusterK).assignments
ClusterCall ==
    /\ call'.op \in {"computeClustersOnce", "getPersonClusterLabel"}
    /\ \/ ComputeClustersOnce
       \/ \E personIdx \in PersonArgs \cup {-1} : GetPersonClusterLabel(personIdx)

\* C1: after loadSheet has replaced people, computeClustersOnce returns the
\* assignments computed from the people now loaded, never the assignments
\* memoized for an earlier dataset.
C1_LoadInvalidatesCache ==
    (call.op = "computeClustersOnce" /\ people # <<>>)
        => Val(call.info).assignments = FreshAssignments

\* C2: while people is unchanged and non-empty, a call that finds nothing
\* stored runs kMeansCluster with k = 3 and stores its assignments; a call
\* that finds a stored assignment returns it, with its k, without running
\* kMeansCluster and without changing what is stored; and no step that keeps
\* people replaces a stored assignment.
C2_ClusteredAtMostOnce ==
    [][ /\ (ClusterCall /\ people # <<>>) =>
             IF cachedClusterAssignments = null
             THEN /\ call'.clustered
                  /\ cachedClusterAssignments' = Box(FreshAssignments)
                  /\ cachedClusterK' = Box(3)
             ELSE /\ ~call'.clustered
                  /\ cachedClusterAssignments' = cachedClusterAssignments
                  /\ cachedClusterK' = cachedClusterK
        /\ (ClusterCall /\ people # <<>>) =>
             call'.info = Box([assignments |-> Val(cachedClusterAssignments'),
                              k |-> Val(cachedClusterK')])
        /\ \A personIdx \in PersonArgs :
             (call'.op = "getPersonClusterLabel"
                 /\ GetPersonClusterLabel(personIdx) /\ ValidIdx(personIdx)
                 /\ personIdx < Len(Val(cachedClusterAssignments'))) =>
               call'.label = Box(NumToString(Val(cachedClusterAssignments')[personIdx + 1] + 1))
        /\ (people' = people /\ cachedClusterAssignments # null) =>
             /\ cachedClusterAssignments' = cachedClusterAssignments
             /\ cachedClusterK' = cachedClusterK
             /\ ~call'.clustered
      ]_vars

\* a second call on the same people was answered from the store
C2_Witness ==
    /\ call.op = "getPersonClusterLabel"
    /\ Len(people) >= 4
    /\ call.label = Box(<<"3">>)
    /\ ~call.clustered
    /\ cachedClusterAssignments = Box(FreshAssignments)

Present(idx, loc) == Person(idx).scores[loc] # null
BothRated(idxI, idxJ) ==
    {loc \in 1..Len(Person(idxI).scores) : Present(idxI, loc) /\ Present(idxJ, loc)}
\* the scores of idx over the locations in locs are all the same
Constant(idx, locs) ==
    \A a, b \in locs : Person(idx).scores[a] = Person(idx).scores[b]

\* C7: in the correlation matrix of the rendered ordering, every cell whose
\* row person and column person are the same has r = 1.0 and overlap equal to
\* the full length of that person's score vector.
C7_DiagonalIsOne ==
    people # <<>> =>
        LET order == RenderOrder
            m == computeCorrelationMatrix(order)
        IN  \A i, j \in 1..Len(order) :
               order[i] = order[j] =>
                   /\ m[i][j].r = Box(Num(1, 1))
                   /\ m[i][j].overlap = Len(Person(order[i]).scores)

\* a reordered matrix holding a person with missing scores and a person whose
\* present scores are all equal
C7_Witness ==
    /\ call.op = "movePersonInOrder"
    /\ call.rendered
    /\ matrixOrder # NaturalOrder(Len(people))
    /\ \E idx \in 0..(Len(people) - 1) :
          /\ \E loc \in 1..6 : ~Present(idx, loc)
          /\ Constant(idx, {loc \in 1..6 : Present(idx, loc)})

\* C8: every cell of two different people has overlap equal to the number of
\* locations both rated, has r absent exactly when that overlap is below 2 or
\* one of the two overlap vectors has no variance (the Pearson result is not
\* finite), and equals the cell of the transposed position.
C8_OffDiagonal ==
    people # <<>> =>
        LET order == RenderOrder
            m == computeCorrelationMatrix(order)
        IN  \A i, j \in 1..Len(order) :
               order[i] # order[j] =>
                   LET both == BothRated(order[i], order[j])
                   IN  /\ m[i][j].overlap = Cardinality(both)
                       /\ (m[i][j].r = null) <=>
                             \/ Cardinality(both) < 2
                             \/ Constant(order[i], both)
                             \/ Constant(order[j], both)
                       /\ m[i][j] = m[j][i]

\* a matrix with a pair below two shared locations, a pair with a constant
\* overlap vector and a pair with a present correlation
C8_Witness ==
    /\ Len(people) >= 3
    /\ \E a, b \in 0..(Len(people) - 1) :
          a # b /\ Cardinality(BothRated(a, b)) < 2
    /\ \E a, b \in 0..(Len(people) - 1) :
          a # b /\ Cardinality(BothRated(a, b)) >= 2 /\ CorrCell(a, b).r = null
    /\ \E a, b \in 0..(Len(people) - 1) :
          a # b /\ CorrCell(a, b).r # null /\ Val(CorrCell(a, b).r).num < 0

IsPermutation(order, n) ==
    /\ Len(order) = n
    /\ \A idx \in 0..(n - 1) : \E i \in 1..n : order[i] = idx

\* order is p, then the people with a present correlation to p from the
\* highest to the lowest, then the people with an absent one
SortedByPerson(order, p) ==
    /\ IsPermutation(order, Len(people))
    /\ order[1] = p
    /\ \A i, j \in 2..Len(order) :
          i < j =>
             LET ri == CorrCell(p, order[i]).r
                 rj == CorrCell(p, order[j]).r
             IN  /\ ri = null => rj = null
                 /\ (ri # null /\ rj # null) => NumCmp(Val(ri), Val(rj)) >= 0

\* C9: sortMatrixByPerson(p) for a valid p leaves matrixOrder with p first,
\* then the others with a present correlation to p in non-increasing order of
\* it, then the others whose correlation to p is absent.
C9_SortByPerson ==
    [][ \A p \in PersonArgs :
           (call'.op = "sortMatrixByPerson" /\ SortMatrixByPerson(p) /\ ValidIdx(p))
               => SortedByPerson(matrixOrder', p)
      ]_vars

\* a sort that moved the anchor to the front, ordered two different present
\* correlations and left an absent one last
C9_Witness ==
    /\ call.op = "sortMatrixByPerson"
    /\ call.rendered
    /\ Len(people) = 4
    /\ matrixOrder[1] # 0
    /\ CorrCell(matrixOrder[1], matrixOrder[4]).r = null
    /\ CorrCell(matrixOrder[1], matrixOrder[3]).r # null
    /\ matrixOrder[2] > matrixOrder[3]
    /\ NumCmp(Val(CorrCell(matrixOrder[1], matrixOrder[2]).r),
              Val(CorrCell(matrixOrder[1], matrixOrder[3]).r)) > 0

\* C10: movePersonInOrder(p, d) exchanges p with the entry at pos(p) + d and
\* keeps every other position; when pos(p) + d is outside matrixOrder or p is
\* not in matrixOrder, matrixOrder is unchanged and the matrix is not rendered.
C10_MoveSwapsNeighbours ==
    [][ \A p \in PersonArgs, d \in {-1, 1} :
           (call'.op = "movePersonInOrder" /\ MovePersonInOrder(p, d)) =>
              LET pos == IndexOf(matrixOrder, p)
              IN  IF pos # -1 /\ pos + d >= 0 /\ pos + d < Len(matrixOrder)
                  THEN /\ Len(matrixOrder') = Len(matrixOrder)
                       /\ matrixOrder'[pos + d + 1] = p
                       /\ matrixOrder'[pos + 1] = matrixOrder[pos + d + 1]
                       /\ \A x \in 1..Len(matrixOrder) :
                             x \notin {pos + 1, pos + d + 1} =>
                                matrixOrder'[x] = matrixOrder[x]
                  ELSE /\ matrixOrder' = matrixOrder
                       /\ ~call'.rendered
      ]_vars

\* a move that exchanged two neighbours of a four-person ordering
C10_Witness ==
    /\ call.op = "movePersonInOrder"
    /\ call.rendered
    /\ Len(matrixOrder) = 4
    /\ matrixOrder[2] = 2
    /\ matrixOrder[3] = 1

\* a move at a boundary, or of a person outside matrixOrder, that did nothing
C10_WitnessNoOp ==
    /\ call.op = "movePersonInOrder"
    /\ ~call.rendered
    /\ people # <<>>
    /\ matrixOrder # NaturalOrder(Len(people))
KMResult == [assignments |-> assignments, centroids |-> centroids]
EffectiveK == Min(kArg, Len(vectors))

FirstIdentical(i) ==
    (CHOOSE j \in 1..i : vectors[j] = vectors[i]
                         /\ \A h \in 1..(j - 1) : vectors[h] # vectors[i]) - 1

C5_ResultShape ==
    pc = "returned" =>
        IF Len(vectors) = 0 \/ kArg <= 0
        THEN assignments = <<>> /\ centroids = <<>>
        ELSE /\ Len(assignments) = Len(vectors)
             /\ Len(centroids) = EffectiveK
             /\ \A i \in 1..Len(assignments) :
                   assignments[i] >= 0 /\ assignments[i] < EffectiveK

\* a run with more clusters asked for than vectors given
C5_Witness ==
    /\ pc = "returned"
    /\ kArg = 3
    /\ Len(vectors) = 2
    /\ assignments = <<0, 1>>

\* a run with k = 0 on three vectors
C5_WitnessEmpty ==
    /\ pc = "returned"
    /\ kArg = 0
    /\ Len(vectors) = 3

\* C6: kMeansCluster returns after at most 25 rounds: every round adds one to
\* the count of rounds, which never exceeds 25, and a call still in its loop
\* has rounds left to run. Round 1 starts from the all-zero
\* assignment, and the loop stops right after the first round that leaves
\* every assignment as it was at the start of that round.
C6_Terminates ==
    /\ [](rounds <= 25)
    /\ [](pc = "loop" => iter < 25 /\ rounds = iter)
    /\ []((pc = "loop" /\ rounds = 0) => \A i \in 1..Len(vectors) : assignments[i] = 0)
    /\ [][KMIterate =>
            /\ rounds' = rounds + 1
            /\ changed' <=> (assignments' # assignments)
            /\ (pc' = "returned") <=> (assignments' = assignments \/ rounds' = 25)
         ]_vars

\* a run that stopped in its third round, the first that changed nothing
C6_Witness ==
    /\ pc = "returned"
    /\ rounds = 3
    /\ ~changed
    /\ kArg = 2
\* the vector holds one value only (zero variance)
ConstantVector(xs) == \A i, j \in 1..Len(xs) : xs[i] = xs[j]
PearsonCalled == call.op = "pearsonCorrelation"

RankingShown ==
    /\ call.op \in {"renderCustomRanking", "sliderInput", "inputChange"}
    /\ call.ret # null
Raters(loc) == {p \in 1..Len(people) : people[p].scores[loc + 1] # null}
ScoreOf(p, loc) == Val(people[p].scores[loc + 1])

\* C14: with exponent 0 a present non-zero score contributes +1 or -1 by its
\* sign and a present zero contributes 0, so the score of a location is the
\* number of its positive ratings minus the number of its negative ratings.
C14_ExponentZeroCountsSigns ==
    (RankingShown /\ currentExponent = 0)
    => \A i \in 1..Len(Val(call.ret)) :
          LET row == Val(call.ret)[i]
              pos == {p \in Raters(row.index) : ScoreOf(p, row.index) > 0}
              neg == {p \in Raters(row.index) : ScoreOf(p, row.index) < 0}
          IN  /\ row.score = Cardinality(pos) - Cardinality(neg)
              /\ \A p \in Raters(row.index) :
                    Contribution(ScoreOf(p, row.index), 0) =
                        IF p \in pos THEN 1 ELSE IF p \in neg THEN -1 ELSE 0
C14_Witness ==
    /\ RankingShown
    /\ currentExponent = 0
    /\ \E i \in 1..Len(Val(call.ret)) :
          LET row == Val(call.ret)[i]
          IN  /\ row.score = 0
              /\ row.count = 2
              /\ \E p, q \in Raters(row.index) :
                    /\ ScoreOf(p, row.index) > 0
                    /\ ScoreOf(q, row.index) < 0
                    /\ ScoreOf(p, row.index) # -ScoreOf(q, row.index)

\* C15: the custom ranking lists exactly the locations at least one person
\* rated, each with the sum of its raters' contributions as score, in
\* non-increasing order of score, locations of equal score in ascending
\* order of location index.
C15_RankingOrder ==
    RankingShown
    => LET rows == Val(call.ret)
           rated == {loc \in 0..(Len(people[1].scores) - 1) : Raters(loc) # {}}
       IN  /\ {rows[i].index : i \in 1..Len(rows)} = rated
           /\ Len(rows) = Cardinality(rated)
           /\ \A i \in 1..Len(rows) :
                 rows[i].score =
                    SumSeq([p \in 1..Len(people) |->
                              IF p \in Raters(rows[i].index)
                              THEN Contribution(ScoreOf(p, rows[i].index), currentExponent)
                              ELSE 0])
           /\ \A i, j \in 1..Len(rows) :
                 i < j => \/ rows[i].score > rows[j].score
                          \/ rows[i].score = rows[j].score /\ rows[i].index < rows[j].index
C15_Witness ==
    /\ RankingShown
    /\ currentExponent = 1
    /\ Len(Val(call.ret)) >= 3
    /\ Len(Val(call.ret)) < Len(people[1].scores)
    /\ \E i \in 1..(Len(Val(call.ret)) - 1) :
          /\ Val(call.ret)[i].score = Val(call.ret)[i + 1].score
          /\ Val(call.ret)[1].score > Val(call.ret)[i].score

\* the text is not a number
NonNumeric(text) == ToNumber(Trim(text)) = null

\* C16: after any sequence of slider input events and numeric-input change
\* events currentExponent is within [0, MAX_EXPONENT], and an event whose
\* value is not numeric leaves currentExponent unchanged.
C16_ExponentClamped ==
    /\ [](currentExponent \in 0..MAX_EXPONENT)
    /\ [][(/\ call'.op \in {"sliderInput", "inputChange"}
           /\ NonNumeric(call'.args))
          => currentExponent' = currentExponent]_vars
\* C17: computeLocationSignedSquaredSums gives each rated location the sum
\* over its raters of value * |value|, returns the locations in
\* non-increasing order of that sum, and reports the first entry of that
\* ranking as best and the last as worst.
C17_SignedSquaredSums ==
    (call.op = "computeLocationSignedSquaredSums" /\ call.ret # null)
    => LET res == Val(call.ret)
           ranking == res.ranking
       IN  /\ {ranking[i].index : i \in 1..Len(ranking)} =
                  {loc \in 0..(Len(people[1].scores) - 1) : Raters(loc) # {}}
           /\ \A i \in 1..Len(ranking) :
                 ranking[i].signedSquaredSum =
                    SumSeq([p \in 1..Len(people) |->
                              IF p \in Raters(ranking[i].index)
                              THEN Sign(ScoreOf(p, ranking[i].index))
                                   * ScoreOf(p, ranking[i].index)
                                   * ScoreOf(p, ranking[i].index)
                              ELSE 0])
           /\ \A i, j \in 1..Len(ranking) :
                 i < j => ranking[i].signedSquaredSum >= ranking[j].signedSquaredSum
           /\ res.best = ranking[1]
           /\ res.worst = ranking[Len(ranking)]
           /\ \A i \in 1..Len(ranking) :
                 /\ res.best.signedSquaredSum >= ranking[i].signedSquaredSum
                 /\ res.worst.signedSquaredSum <= ranking[i].signedSquaredSum
C17_Witness ==
    /\ call.op = "computeLocationSignedSquaredSums"
    /\ call.ret # null
    /\ Val(call.ret).best.signedSquaredSum > Val(call.ret).worst.signedSquaredSum
    /\ \E i \in 1..Len(Val(call.ret).ranking) :
          LET row == Val(call.ret).ranking[i]
          IN  /\ row.signedSquaredSum = 8
              /\ {ScoreOf(p, row.index) : p \in Raters(row.index)} = {3, -1}
              /\ row.count = 2
\* the locations person idx scored that somebody else scored too
Comparable(idx) ==
    {loc \in 0..(Len(Person(idx).scores) - 1) :
        /\ Present(idx, loc + 1)
        /\ Raters(loc) \ {idx + 1} # {}}
\* |score of idx - mean of the other raters| at loc, as the fraction num / den
MeanGap(idx, loc) ==
    LET others == Raters(loc) \ {idx + 1}
        sum == SumSeq([j \in 1..Len(people) |-> IF j \in others THEN ScoreOf(j, loc) ELSE 0])
    IN  [num |-> Abs(ScoreOf(idx + 1, loc) * Cardinality(others) - sum),
         den |-> Cardinality(others)]
GapLess(a, b) == a.num * b.den < b.num * a.den

\* C18: computeMostDifferentLocation(p) considers only the locations where p
\* has a score and at least one other person has one; it returns the one
\* with the largest |p's score - mean of the other raters' scores|, the
\* lowest-index one on ties, and null when there is no such location or p
\* is not a valid person index.
C18_MostDifferent ==
    call.op = "computeMostDifferentLocation"
    => LET p == call.args
       IN  IF ~ValidIdx(p) \/ Comparable(p) = {}
           THEN call.ret = null
           ELSE /\ call.ret # null
                /\ Val(call.ret).index \in Comparable(p)
                /\ \A loc \in Comparable(p) :
                      /\ ~GapLess(MeanGap(p, Val(call.ret).index), MeanGap(p, loc))
                      /\ ~GapLess(MeanGap(p, loc), MeanGap(p, Val(call.ret).index))
                            => Val(call.ret).index <= loc
C20_EmptyMatrix ==
    people = <<>>
    => /\ call.op = "buildNormalizedVectors" => call.ret = <<>>
       /\ call.op = "computeClusterLocationExtremes"
             => ~call.ret.threw /\ call.ret.value = <<>>
       /\ call.op = "computeClustersOnce" => call.info = null
       /\ call.op = "computeLocationSignedSquaredSums" => call.ret = null
       /\ call.op = "computeMostDifferentLocation" => call.ret = null
       /\ call.op = "computePolarizationExtremes"
             => call.ret.most = null /\ call.ret.least = null
       /\ call.op = "computeGlobalPairExtremes"
             => call.ret.bestPair = null /\ call.ret.worstPair = null
       /\ (call.op = "computeCorrelationMatrix" /\ call.args = <<>>) => call.ret = <<>>
C20_Witness ==
    /\ people = <<>>
    /\ cachedClusterAssignments # null
    /\ call.op = "computeClustersOnce"
    /\ call.info = null

\* the two selected names, as the last comparison read them
SelectedA == call.args[1]
SelectedB == call.args[2]
Compared == call.op = "computeCorrelation"
BothFound ==
    /\ SelectedA # <<>> /\ SelectedB # <<>> /\ SelectedA # SelectedB
    /\ FindByName(SelectedA) # null /\ FindByName(SelectedB) # null
\* the locations both selected people rated
SharedLocations ==
    {loc \in 0..(SCORE_END_COL_INDEX - SCORE_START_COL_INDEX) :
        /\ people[Val(FindByName(SelectedA))].scores[loc + 1] # null
        /\ people[Val(FindByName(SelectedB))].scores[loc + 1] # null}
Refused ==
    /\ call.ret.status # ""
    /\ call.ret.error
    /\ call.ret.display = "none"
    /\ call.ret.r = null
    /\ call.ret.compromise = null

\* C21: a comparison of two people who share fewer than 2 rated locations
\* ends with the not-enough-overlap error status, the result box hidden and
\* no correlation or comparative metric reported; it is refused in the same
\* way when the two names are equal, when a name is missing or names nobody,
\* and when the Pearson result is not finite; every other comparison shows
\* the result box with a finite correlation and no error.
C21_InsufficientData ==
    Compared =>
        IF ~BothFound THEN Refused
        ELSE IF Cardinality(SharedLocations) < 2
        THEN Refused /\ call.ret.status = "not enough overlap"
        ELSE LET o == buildOverlap(people[Val(FindByName(SelectedA))],
                                   people[Val(FindByName(SelectedB))])
             IN  IF ~IsFinite(pearsonCorrelation(o.xs, o.ys)) THEN Refused
                 ELSE /\ ~call.ret.error /\ call.ret.status = ""
                      /\ call.ret.display = "block"
                      /\ call.ret.r # null /\ IsFinite(Val(call.ret.r))

\* two different people of the sheet who share exactly one rated location
C21_Witness ==
    /\ Compared /\ BothFound
    /\ Cardinality(SharedLocations) = 1
    /\ Refused

\* two people with two shared locations, one of whom gave both the same score
C21_WitnessNotFinite ==
    /\ Compared /\ BothFound
    /\ Cardinality(SharedLocations) >= 2
    /\ call.ret.status = "no valid correlation"

\* C22: every person of the loaded matrix has a non-empty name, and no two
\* people of the matrix have the same name.
C22_NamesUnique ==
    /\ \A i \in 1..Len(people) : people[i].name # <<>>
    /\ \A i, j \in 1..Len(people) : people[i].name = people[j].name => i = j

\* the squared Euclidean distance of vector i from centroid c (0-based) of cents
Dist2(i, cents, c) ==
    SumSeq([d \in 1..Len(vectors[i]) |->
              (vectors[i][d] - cents[c + 1][d]) * (vectors[i][d] - cents[c + 1][d])])
\* cluster c is at minimum distance from vector i among the centroids cents
IsNearest(i, cents, c) ==
    \A other \in 0..(Len(cents) - 1) : Dist2(i, cents, c) <= Dist2(i, cents, other)

\* C23: a round assigns each vector to a centroid at minimum squared
\* Euclidean distance from it, measured against the centroids the round
\* started with, and among several centroids at that minimum to the one
\* with the lowest cluster index.
C23_NearestCentroid ==
    [][KMIterate =>
          \A i \in 1..Len(vectors) :
              /\ assignments'[i] \in 0..(k - 1)
              /\ IsNearest(i, centroids, assignments'[i])
              /\ \A c \in 0..(assignments'[i] - 1) : ~IsNearest(i, centroids, c)
      ]_vars

\* after round 1 with three clusters: the third vector equals the second, so
\* it was as near to centroid 1 as to centroid 2, and it went to cluster 1
C23_Witness ==
    /\ rounds = 1
    /\ kArg = 3
    /\ Len(vectors) = 3
    /\ vectors[3] = vectors[2]
    /\ vectors[1] # vectors[2]
    /\ assignments[3] = 1

StoppedEarly == pc = "returned" /\ rounds >= 1 /\ ~changed
\* centroid c (0-based) is the mean of the vectors assigned to it
IsMeanOfMembers(c) ==
    LET m == {i \in 1..Len(vectors) : assignments[i] = c}
    IN  \A d \in 1..Len(centroids[c + 1]) :
           LET sum == SumSeq([i \in 1..Len(vectors) |-> IF i \in m THEN vectors[i][d] ELSE 0])
           IN  2 * Abs(centroids[c + 1][d] * Cardinality(m) - sum) <= Cardinality(m)
Consistent ==
    /\ \A i \in 1..Len(vectors) : IsNearest(i, centroids, assignments[i])
    /\ \A c \in 0..(Len(centroids) - 1) :
          (\E i \in 1..Len(vectors) : assignments[i] = c) => IsMeanOfMembers(c)

\* C28, as stated: whenever kMeansCluster stops because a round changed no
\* assignment, every vector is assigned to a centroid nearest to it among
\* the returned centroids and every returned centroid that has a member is
\* the mean of its members.
C28_ConsistentOnEarlyStop == StoppedEarly => Consistent

\* C28, amended: the same when the round that changed nothing is the second
\* or a later one, or when there is a single cluster.
C28_ConsistentAfterSecondRound == (StoppedEarly /\ (rounds >= 2 \/ k = 1)) => Consistent

\* a run of two clusters that stopped in its third round with a centroid
\* that is none of the vectors
C28_Witness ==
    /\ StoppedEarly
    /\ rounds = 3
    /\ k = 2
    /\ \E c \in 1..Len(centroids) : \A i \in 1..Len(vectors) : centroids[c] # vectors[i]

\* the row the last step normalized has no score, or equal scores only
AllPresentEqual ==
    \E scores \in {DoubleScores(MkRow(<<"A">>, call.args))} :
        \A i, j \in {h \in 1..Len(scores) : scores[h] # null} :
            DoubleEquals(Val(scores[i]), Val(scores[j]))
NonePresent == \A i \in 1..Len(call.args) : Trim(call.args[i]) = <<>>

\* C24: the normalized vector of a person has one entry per location; a
\* person with no present score is imputed with mean 0; when there is no
\* present score or all present scores are equal the divisor is 1 and
\* every entry is zero; otherwise the entries sum to zero, so they are not
\* all of one sign.
C24_NormalizedVector ==
    call.op = "buildNormalizedVectors" =>
        /\ call.ret.length = SCORE_END_COL_INDEX - SCORE_START_COL_INDEX + 1
        /\ Len(call.ret.signs) = call.ret.length
        /\ NonePresent => DoubleIsZero(call.ret.mean)
        /\ IF AllPresentEqual
           THEN /\ call.ret.divisorIsOne
                /\ \A i \in 1..Len(call.ret.signs) : call.ret.signs[i] = 0
           ELSE /\ \E i \in 1..Len(call.ret.signs) : call.ret.signs[i] > 0
                /\ \E i \in 1..Len(call.ret.signs) : call.ret.signs[i] < 0

\* how the last comparison's |A - B| falls at each location: "absent" when
\* a score is missing, "0", "1", "2", "3+", or "between" when it is below 3
\* and none of 0, 1, 2
DiffClassOf(absDiff) ==
    IF DoubleIsZero(absDiff) THEN "0"
    ELSE IF absDiff.mag = DoubleOfInt(1).mag THEN "1"
    ELSE IF absDiff.mag = DoubleOfInt(2).mag THEN "2"
    ELSE IF BitsLess(absDiff.mag, DoubleOfInt(3).mag) THEN "between"
    ELSE "3+"
DiffClasses ==
    CHOOSE cs \in
        {[i \in 1..Len(a) |->
             IF a[i] = null \/ b[i] = null THEN "absent"
             ELSE CHOOSE c \in {DiffClassOf(d) : d \in {DoubleAbs(DoubleSub(Val(a[i]), Val(b[i])))}} : TRUE]
             \o <<>> :
           a \in {DoubleScores(MkRow(<<"A">>, call.args[1]))},
           b \in {DoubleScores(MkRow(<<"B">>, call.args[2]))}} : TRUE
CountOf(cs, class) == Cardinality({i \in 1..Len(cs) : cs[i] = class})
BucketSum ==
    call.ret.exactSameCount + call.ret.offBy1Count + call.ret.offBy2Count
        + call.ret.diff3PlusCount

\* C29, as stated: the four agreement-strength counts of a comparison sum to
\* the overlap size, whatever scores the sheet held.
C29_BucketsCoverOverlap ==
    call.op = "computeCorrelation" =>
        \E cs \in {DiffClasses} :
            /\ call.ret.n = Len(cs) - CountOf(cs, "absent")
            /\ BucketSum = call.ret.n

\* C29, amended: an overlap location is counted in exactly one bucket when
\* its |A - B| is 0, 1, 2 or at least 3, and in none otherwise; the four
\* counts sum to the overlap size less the locations counted in none.
C29_BucketsCoverWholeDifferences ==
    call.op = "computeCorrelation" =>
        \E cs \in {DiffClasses} :
            /\ call.ret.n = Len(cs) - CountOf(cs, "absent")
            /\ BucketSum = call.ret.n - CountOf(cs, "between")
            /\ call.ret.exactSameCount = CountOf(cs, "0")
            /\ call.ret.offBy1Count = CountOf(cs, "1")
            /\ call.ret.offBy2Count = CountOf(cs, "2")
            /\ call.ret.diff3PlusCount = CountOf(cs, "3+")

\* a comparison over two locations: scores 1 and 2 at one, 0.1 and 1 at the
\* other, which no bucket counts
C29_Witness ==
    /\ call.op = "computeCorrelation"
    /\ call.args = <<(<<(<<"1">>), (<<"0", ".", "1">>)>>), (<<(<<"2">>), (<<"1">>)>>)>>
    /\ call.ret.n = 2
    /\ call.ret.offBy1Count = 1
    /\ BucketSum = 1

\* the assignments and the k the last call of computeClusterLocationExtremes got
ExtremesAssigned == call.args[1]
ExtremesK == call.args[2]
ClusterMembers(c) ==
    {i \in 0..(Len(ExtremesAssigned) - 1) : ExtremesAssigned[i + 1] = c /\ ValidIdx(i)}
MemberRaters(c, loc) == {i \in ClusterMembers(c) : Person(i).scores[loc + 1] # null}
RatedLocations(c) ==
    {loc \in 0..(SCORE_END_COL_INDEX - SCORE_START_COL_INDEX) : MemberRaters(c, loc) # {}}
RECURSIVE MemberSum(_, _)
MemberSum(raters, loc) ==
    IF raters = {} THEN 0
    ELSE LET i == CHOOSE h \in raters : TRUE
         IN  Val(Person(i).scores[loc + 1]) + MemberSum(raters \ {i}, loc)
\* the members' mean at location a is at least their mean at location b
MeanAtLeast(c, a, b) ==
    MemberSum(MemberRaters(c, a), a) * Cardinality(MemberRaters(c, b))
        >= MemberSum(MemberRaters(c, b), b) * Cardinality(MemberRaters(c, a))
ExtremesCalled == call.op = "renderClusters" /\ call.args # null

\* C25: called by renderClusters, computeClusterLocationExtremes(assignments, k)
\* does not throw and returns k summaries, for the clusters 0..k-1 in order;
\* a cluster without members, or whose members rated no location, has no
\* favorite and no least favorite; any other cluster has as favorite a
\* location of highest mean among its members' ratings and as least
\* favorite one of lowest mean.
C25_ClusterExtremes ==
    ExtremesCalled =>
        /\ ~call.ret.threw
        /\ Len(call.ret.value) = ExtremesK
        /\ \A c \in 0..(ExtremesK - 1) :
              LET summary == call.ret.value[c + 1]
              IN  /\ summary.cluster = c
                  /\ IF ClusterMembers(c) = {} \/ RatedLocations(c) = {}
                     THEN summary.favorite = null /\ summary.leastFavorite = null
                     ELSE /\ summary.favorite # null /\ summary.leastFavorite # null
                          /\ Val(summary.favorite).idx \in RatedLocations(c)
                          /\ Val(summary.leastFavorite).idx \in RatedLocations(c)
                          /\ \A loc \in RatedLocations(c) :
                                /\ MeanAtLeast(c, Val(summary.favorite).idx, loc)
                                /\ MeanAtLeast(c, loc, Val(summary.leastFavorite).idx)

\* the same, for the calls whose assignments are those of the people loaded
C25_FreshAssignments ==
    (ExtremesCalled /\ Len(ExtremesAssigned) <= Len(people)) => C25_ClusterExtremes

OverlapCalled == call.op = "buildOverlap"
OverlapA == Person(call.args[1])
OverlapB == Person(call.args[2])
BothPresent == {i \in 0..(Len(OverlapA.scores) - 1) :
                   OverlapA.scores[i + 1] # null /\ OverlapB.scores[i + 1] # null}

\* C26: buildOverlap(A, B) returns xs, ys and overlaps of one length, the
\* overlaps naming exactly the locations both A and B scored, in increasing
\* order, with xs[i] the score of A and ys[i] the score of B at the i-th of
\* them; buildOverlap(B, A) names the same locations and returns the two
\* score lists exchanged.
C26_BuildOverlap ==
    OverlapCalled =>
        LET o == call.ret
            back == buildOverlap(OverlapB, OverlapA)
        IN  /\ Len(o.xs) = Len(o.overlaps) /\ Len(o.ys) = Len(o.overlaps)
            /\ {o.overlaps[i].index : i \in 1..Len(o.overlaps)} = BothPresent
            /\ \A i \in 1..(Len(o.overlaps) - 1) : o.overlaps[i].index < o.overlaps[i + 1].index
            /\ \A i \in 1..Len(o.overlaps) :
                  /\ OverlapA.scores[o.overlaps[i].index + 1] = Box(o.xs[i])
                  /\ OverlapB.scores[o.overlaps[i].index + 1] = Box(o.ys[i])
                  /\ o.overlaps[i].a = o.xs[i] /\ o.overlaps[i].b = o.ys[i]
            /\ Len(back.overlaps) = Len(o.overlaps)
            /\ \A i \in 1..Len(o.overlaps) : back.overlaps[i].index = o.overlaps[i].index
            /\ back.xs = o.ys /\ back.ys = o.xs

\* two different people who share some locations but not all, with
\* different scores at one of them
C26_Witness ==
    /\ OverlapCalled
    /\ call.args[1] # call.args[2]
    /\ Len(call.ret.overlaps) >= 2
    /\ Len(call.ret.overlaps) < Cardinality({i \in 1..Len(OverlapA.scores) : OverlapA.scores[i] # null})
    /\ call.ret.xs # call.ret.ys

\* C27: while people are loaded, matrixOrder is a permutation of the person
\* indices 0..people.length-1, after the load and after every
\* sortMatrixByPerson and movePersonInOrder that followed it.
C27_MatrixOrderPermutation ==
    Len(people) > 0 => IsPermutation(matrixOrder, Len(people))

\* four people whose ordering is far from the loaded one after a move
C27_Witness ==
    /\ call.op = "movePersonInOrder"
    /\ call.rendered
    /\ Len(people) = 4
    /\ matrixOrder = <<3, 1, 0, 2>>

ParsedTable == call.args.table
ParsedRows == call.ret
HasVisibleCell(row) ==
    \E c \in 1..Len(row) : \E x \in 1..Len(row[c]) : row[c][x] \notin {" ", "\t", "\n", "\r"}

\* C30: parseCSV returns the cells of an exported table as they were
\* written: a comma or a line break inside a quoted cell stays in the cell, a
\* doubled quote comes back as one quote, a CR LF or LF between rows ends
\* one row, the last row is returned with or without a line break after it,
\* and exactly the rows whose cells are all blank are left out.
C30_ParseCSV ==
    call.op = "parseCSV" => ParsedRows = SelectSeq(ParsedTable, HasVisibleCell)

\* two rows separated by CR LF with no line break at the end, the first all
\* blank, the second holding a quote and a cell with a comma or line break
C30_Witness ==
    /\ call.op = "parseCSV"
    /\ Len(ParsedTable) = 2
    /\ call.args.lineBreak = <<"\r", "\n">>
    /\ ~call.args.trailing
    /\ ~HasVisibleCell(ParsedTable[1])
    /\ ParsedTable[2] = << <<"\"">>, <<",">> >>
    /\ ParsedRows = << ParsedTable[2] >>
====
